---- MODULE Spec2Model ----
(***************************************************************************)
(* Model of gdrivekit's export cache (gdrivekit/export/cache.py) and of    *)
(* the batch orchestrator of GDriveClient (gdrivekit/clients/drive.py).    *)
(*                                                                         *)
(* The file system under one base path is a function from item ids to a   *)
(* directory record.  A file is absent ("none"), truncated (opened for     *)
(* writing, the write did not finish: "trunc") or holds the value written  *)
(* to it ("full").                                                          *)
(* Text is a sequence of characters ("CR" and "LF" are the two line-end    *)
(* characters), bytes a sequence of byte blocks, a timestamp a sequence    *)
(* of digits compared as Python compares str (lexicographically).          *)
(***************************************************************************)
EXTENDS Integers, Sequences, FiniteSets, TLC

\* ------------------------------------------------------------------ bounds
MaxDigit == 2
MaxWorkers == 2
MaxDepth == 2
MaxComments == 2
MaxLen == 3
MaxRows == 2
MaxSlides == 2
MaxImages == 2

\* ------------------------------------------------------------ input domains
Ids == {"a"}

\* the ids of the Drive the batch calls run against (DriveItems below)
DriveIds == {"f1", "f2", "A", "B", "C", "D", "g1", "g2", "s1", "r1", "u1"}
DiskIds == Ids \cup DriveIds
TimeDigits == 1..MaxDigit
Formats == {"markdown", "pdf"}

\* modifiedTime strings; the empty string is the value of a missing time
Times == {<<>>} \cup {<<d>> : d \in TimeDigits}

\* markdown text (str) and pdf data (bytes) an export can produce
TextContents == {<<"x">>, <<"x", "CR", "LF">>}
ByteContents == {<<"b1">>}

\* export_document builds str content for markdown and bytes for pdf
ContentsOf(content_format) ==
  IF content_format = "pdf" THEN ByteContents ELSE TextContents

\* an asset name is <<stem, suffix>>, e.g. image1.png
AssetNames == {<<"image1", ".png">>, <<"image2", ".bin">>}

\* ------------------------------------------------------------------ models.py
ExportedAsset(name, content, anchor, mime_type) ==
  [name |-> name, content |-> content, anchor |-> anchor, mime_type |-> mime_type]

\* image1.png as extract_assets_from_markdown names a image/png reference,
\* image2.bin as it names one of a mime type outside its table (image/bmp)
Image1 == ExportedAsset(<<"image1", ".png">>, <<"b1">>, "image1", "image/png")
Image2 == ExportedAsset(<<"image2", ".bin">>, <<"b2">>, "image2", "image/bmp")
AssetLists == {<<>>, <<Image1>>, <<Image1, Image2>>}

CommentLists == {<<>>, <<"c2", "c1">>}

ExportedItems ==
  { x \in
   { [item_id |-> i, item_type |-> "document", title |-> "T", created_time |-> <<1>>,
     modified_time |-> t, content |-> c, content_format |-> f,
     assets |-> as, comments |-> cs] :
      i \in Ids, t \in Times, f \in Formats,
      c \in TextContents \cup ByteContents,
      as \in AssetLists, cs \in CommentLists }
     : x.content \in ContentsOf(x.content_format) }

is_pdf(item) == item.content_format = "pdf"

\* ------------------------------------------------------------- file system
NoFile(default) == [state |-> "none", data |-> default]
Truncated(default) == [state |-> "trunc", data |-> default]
Full(v) == [state |-> "full", data |-> v]

IsFile(f) == f.state # "none"
Readable(f) == f.state = "full"

NoMetadata ==
  [item_id |-> "", item_type |-> "", title |-> "", created_time |-> <<>>,
   modified_time |-> <<>>, content_format |-> "", asset_count |-> 0]

EmptyDir ==
  [exists |-> FALSE, metadata |-> NoFile(NoMetadata), comments |-> NoFile(<<>>),
   md |-> NoFile(<<>>), pdf |-> NoFile(<<>>), assets_dir |-> FALSE,
   assets |-> [n \in AssetNames |-> NoFile(<<>>)],
   raw |-> NoFile(<<>>)]

\* Python str comparison a >= b
RECURSIVE StrGeq(_, _)
StrGeq(a, b) ==
  IF b = <<>> THEN TRUE
  ELSE IF a = <<>> THEN FALSE
  ELSE IF a[1] # b[1] THEN a[1] > b[1]
  ELSE StrGeq(Tail(a), Tail(b))

\* reading a file opened with open(path, 'r'): universal newlines
RECURSIVE ReadText(_)
ReadText(s) ==
  IF s = <<>> THEN <<>>
  ELSE IF s[1] = "CR"
       THEN IF Len(s) >= 2 /\ s[2] = "LF"
            THEN <<"LF">> \o ReadText(Tail(Tail(s)))
            ELSE <<"LF">> \o ReadText(Tail(s))
       ELSE <<s[1]>> \o ReadText(Tail(s))

\* ------------------------------------------------------- cache.save_to_disk
Metadata(item) ==
  [item_id |-> item.item_id, item_type |-> item.item_type, title |-> item.title,
   created_time |-> item.created_time, modified_time |-> item.modified_time,
   content_format |-> item.content_format, asset_count |-> Len(item.assets)]

\* the statements of save_to_disk that touch the file system, in program order:
\* 1 item_dir.mkdir, 2 assets_dir.mkdir, 3 metadata.json, 4 comments.json,
\* 5 content.md / content.pdf, 5+i the i-th asset
NSteps(item) == 5 + Len(item.assets)

SaveStep(dir, item, k) ==
  CASE k = 1 -> [dir EXCEPT !.exists = TRUE]
    [] k = 2 -> IF item.assets # <<>> THEN [dir EXCEPT !.assets_dir = TRUE] ELSE dir
    [] k = 3 -> [dir EXCEPT !.metadata = Full(Metadata(item))]
    [] k = 4 -> [dir EXCEPT !.comments = Full(item.comments)]
    [] k = 5 -> IF is_pdf(item) THEN [dir EXCEPT !.pdf = Full(item.content)]
                ELSE [dir EXCEPT !.md = Full(item.content)]
    [] OTHER -> [dir EXCEPT !.assets[item.assets[k - 5].name] = Full(item.assets[k - 5].content)]

\* open(path, 'w') has truncated the file of step k and the write did not finish
TruncateStep(dir, item, k) ==
  CASE k = 3 -> [dir EXCEPT !.metadata = Truncated(NoMetadata)]
    [] k = 4 -> [dir EXCEPT !.comments = Truncated(<<>>)]
    [] k = 5 -> IF is_pdf(item) THEN [dir EXCEPT !.pdf = Truncated(<<>>)]
                ELSE [dir EXCEPT !.md = Truncated(<<>>)]
    [] k > 5 -> [dir EXCEPT !.assets[item.assets[k - 5].name] = Truncated(<<>>)]
    [] OTHER -> dir

\* the directory after the first k statements
RECURSIVE SaveProgress(_, _, _)
SaveProgress(dir, item, k) ==
  IF k = 0 THEN dir ELSE SaveStep(SaveProgress(dir, item, k - 1), item, k)

save_to_disk(d, item) ==
  [d EXCEPT ![item.item_id] = SaveProgress(d[item.item_id], item, NSteps(item))]

\* save_to_disk stopped after k statements; trunc: inside the write of statement k+1
save_interrupted(d, item, k, trunc) ==
  LET done == SaveProgress(d[item.item_id], item, k)
  IN  [d EXCEPT ![item.item_id] = IF trunc THEN TruncateStep(done, item, k + 1) ELSE done]

\* ----------------------------------------------------- cache.load_from_disk
SortedAssetNames == << <<"image1", ".png">>, <<"image2", ".bin">> >>

ext_to_mime(suffix) ==
  CASE suffix = ".png" -> "image/png"
    [] suffix = ".jpg" -> "image/jpeg"
    [] suffix = ".jpeg" -> "image/jpeg"
    [] suffix = ".gif" -> "image/gif"
    [] suffix = ".svg" -> "image/svg+xml"
    [] suffix = ".webp" -> "image/webp"
    [] suffix = ".pdf" -> "application/pdf"
    [] OTHER -> "application/octet-stream"

TruncatedData == <<"...">>

FileData(f) == IF f.state = "trunc" THEN TruncatedData ELSE f.data

RECURSIVE LoadAssets(_, _)
LoadAssets(dir, names) ==
  IF names = <<>> THEN <<>>
  ELSE LET n == Head(names)
           rest == LoadAssets(dir, Tail(names))
       IN  IF IsFile(dir.assets[n])
           THEN <<ExportedAsset(n, FileData(dir.assets[n]), n[1], ext_to_mime(n[2]))>> \o rest
           ELSE rest

NoItem ==
  [item_id |-> "", item_type |-> "", title |-> "", created_time |-> <<>>,
   modified_time |-> <<>>, content |-> <<>>, content_format |-> "",
   assets |-> <<>>, comments |-> <<>>]

Raised(exc) == [status |-> exc, item |-> NoItem]

load_from_disk(d, item_id) ==
  LET dir == d[item_id]
      meta == dir.metadata.data
      cfile == IF meta.content_format = "pdf" THEN dir.pdf ELSE dir.md
  IN  IF ~dir.exists THEN Raised("FileNotFoundError")
      ELSE IF ~IsFile(dir.metadata) THEN Raised("FileNotFoundError")
      ELSE IF ~Readable(dir.metadata) THEN Raised("IOError")
      ELSE IF ~IsFile(dir.comments) THEN Raised("FileNotFoundError")
      ELSE IF ~Readable(dir.comments) THEN Raised("IOError")
      ELSE IF ~IsFile(cfile) THEN Raised("FileNotFoundError")
      ELSE [status |-> "ok",
            item |-> [item_id |-> meta.item_id, item_type |-> meta.item_type,
                      title |-> meta.title, created_time |-> meta.created_time,
                      modified_time |-> meta.modified_time,
                      content |-> IF meta.content_format = "pdf" THEN FileData(cfile)
                                  ELSE ReadText(FileData(cfile)),
                      content_format |-> meta.content_format,
                      assets |-> IF dir.assets_dir THEN LoadAssets(dir, SortedAssetNames)
                                 ELSE <<>>,
                      comments |-> dir.comments.data]]

\* --------------------------------------------------- cache.delete_from_disk
\* mutant: the existence check is dropped (rmtree with ignore_errors), every call reports True
delete_without_check(d, item_id) ==
  [disk |-> [d EXCEPT ![item_id] = EmptyDir], result |-> TRUE]

\* mutant: only the assets directory is removed
delete_assets_only(d, item_id) ==
  IF ~d[item_id].exists THEN [disk |-> d, result |-> FALSE]
  ELSE [disk |-> [d EXCEPT ![item_id].assets_dir = FALSE,
                           ![item_id].assets = EmptyDir.assets],
        result |-> TRUE]

delete_from_disk(d, item_id) ==
  IF ~d[item_id].exists THEN [disk |-> d, result |-> FALSE]
  ELSE [disk |-> [d EXCEPT ![item_id] = EmptyDir], result |-> TRUE]

\* ------------------------------------- cache.get_cached_metadata, should_skip
None == [state |-> "None", data |-> NoMetadata]

get_cached_metadata(d, item_id) ==
  LET f == d[item_id].metadata
  IN  IF ~IsFile(f) THEN None
      ELSE IF ~Readable(f) THEN None
      ELSE f

\* mutant: the comparison is strict
should_skip_strict(d, item_id, modified_time) ==
  LET cached_metadata == get_cached_metadata(d, item_id)
      cached_modified == cached_metadata.data.modified_time
  IN  IF cached_metadata = None THEN FALSE
      ELSE IF cached_modified = <<>> THEN FALSE
      ELSE StrGeq(cached_modified, modified_time) /\ cached_modified # modified_time

should_skip_export(d, item_id, modified_time) ==
  LET cached_metadata == get_cached_metadata(d, item_id)
      cached_modified == cached_metadata.data.modified_time
  IN  IF cached_metadata = None THEN FALSE
      ELSE IF cached_modified = <<>> THEN FALSE
      ELSE StrGeq(cached_modified, modified_time)

cache_exists(d, item_id) == IsFile(d[item_id].metadata)

\* the file item_dir / filename of a downloaded raw file
raw_file_exists(d, item_id, filename) == IsFile(d[item_id].raw)

\* ------------------------------------------------------------------- state
VARIABLES
  disk,         \* the directories under the base path / output_path, by item id
  ret,          \* the last cache call: what was called and what it returned
  call,         \* the batch entry point called: its arguments, where its thread is
  tasks,        \* one record per work unit handed to _process_single_item
  successes,    \* the three result lists
  failures,
  skipped,
  results_lock, \* the task holding results_lock, 0 when free
  services,     \* per thread, how many thread-local service objects were built for it
  api_calls,    \* the Drive API calls of the batch call: the thread, the service used
  returned,     \* the BatchExportResult returned
  children,     \* hierarchical export: the item directories .../children/<id>
  folders,      \* hierarchical export: the folder records, by folder id
  stack,        \* the frames of collect_and_export_recursive, innermost first
  visited,      \* its visited set
  raised_folders, \* the folders whose processing raised
  entered,      \* the folders collect_and_export_recursive went into, in order
  conv,         \* the last converter call: what was called, its arguments and result
  auth          \* OAuth2Client: the token storage, the refresh lock, each thread's call

cacheVars == <<disk, ret>>
folderVars == <<children, folders, stack, visited, raised_folders, entered>>
batchVars == <<call, tasks, successes, failures, skipped, results_lock, services, api_calls,
               returned, children, folders, stack, visited, raised_folders, entered>>
convVars == <<conv>>
vars == <<disk, ret, call, tasks, successes, failures, skipped, results_lock, services, api_calls,
          returned,
          children, folders, stack, visited, raised_folders, entered, conv, auth>>

\* op: the function called; item: the item a completed save_to_disk wrote;
\* status: "ok", the exception raised, or "killed"; value: the boolean returned;
\* truncated: the interruption left the file being written truncated
Call(op, item_id) ==
  [op |-> op, item_id |-> item_id, item |-> NoItem,
   status |-> "ok", value |-> FALSE, truncated |-> FALSE]

NoCall == [pc |-> "idle", entry |-> "", run |-> 0, item_ids |-> <<>>, folder_id |-> "",
           depth |-> <<>>, output_type |-> "", max_workers |-> 0]
NoFolderMetadata == [item_id |-> "", item_type |-> "", name |-> "", created_time |-> <<>>,
                     modified_time |-> <<>>]
NoFolder == [exists |-> FALSE, metadata |-> NoFile(NoFolderMetadata), children |-> FALSE]
NoConv == [op |-> "none"]
\* storage: the access token the keyring holds (tokens are numbered as issued);
\* expired: the tokens whose lifetime has run out; refresh_lock: the holder or -1;
\* pc, creds: each thread's position in get_credentials and its local creds;
\* refreshes: the creds.refresh calls that returned, saves: the storage.save calls
NoAuth == [storage |-> 0, expired |-> {}, refresh_lock |-> -1,
           pc |-> [t \in 0..MaxWorkers |-> "idle"], creds |-> [t \in 0..MaxWorkers |-> -1],
           refreshes |-> <<>>, saves |-> <<>>]
NoResult == [total_processed |-> -1, successes |-> <<>>, failures |-> <<>>, skipped |-> <<>>]

Init ==
  /\ disk = [i \in DiskIds |-> EmptyDir]
  /\ ret = Call("init", "")
  /\ call = NoCall
  /\ tasks = <<>>
  /\ successes = <<>>
  /\ failures = <<>>
  /\ skipped = <<>>
  /\ results_lock = 0
  /\ services = [w \in 0..MaxWorkers |-> 0]
  /\ api_calls = {}
  /\ returned = NoResult
  /\ children = [i \in DiskIds |-> EmptyDir]
  /\ folders = [i \in DriveIds |-> NoFolder]
  /\ stack = <<>>
  /\ visited = {}
  /\ raised_folders = {}
  /\ entered = <<>>
  /\ conv = NoConv
  /\ auth = NoAuth

\* save_to_disk(exported_item) returns the directory
SaveToDisk(item) ==
  /\ disk' = save_to_disk(disk, item)
  /\ ret' = [Call("save_to_disk", item.item_id) EXCEPT !.item = item]
  /\ UNCHANGED batchVars
  /\ UNCHANGED <<convVars, auth>>

\* a statement of save_to_disk raises: the except clause re-raises as IOError
SaveToDiskRaises(item, k, trunc) ==
  /\ disk' = save_interrupted(disk, item, k, trunc)
  /\ ret' = [Call("save_to_disk", item.item_id) EXCEPT
               !.status = "IOError", !.truncated = trunc]
  /\ UNCHANGED batchVars
  /\ UNCHANGED <<convVars, auth>>

\* the process is killed inside save_to_disk; the next call is a new process
SaveToDiskKilled(item, k, trunc) ==
  /\ disk' = save_interrupted(disk, item, k, trunc)
  /\ ret' = [Call("save_to_disk", item.item_id) EXCEPT
               !.status = "killed", !.truncated = trunc]
  /\ UNCHANGED batchVars
  /\ UNCHANGED <<convVars, auth>>

LoadFromDisk(item_id) ==
  /\ disk' = disk
  /\ LET r == load_from_disk(disk, item_id)
     IN  ret' = [Call("load_from_disk", item_id) EXCEPT !.status = r.status]
  /\ UNCHANGED batchVars
  /\ UNCHANGED <<convVars, auth>>

DeleteFromDisk(item_id) ==
  /\ LET r == delete_from_disk(disk, item_id)
     IN  /\ disk' = r.disk
         /\ ret' = [Call("delete_from_disk", item_id) EXCEPT !.value = r.result]
  /\ UNCHANGED batchVars
  /\ UNCHANGED <<convVars, auth>>

ShouldSkipExport(item_id, modified_time) ==
  /\ disk' = disk
  /\ ret' = [Call("should_skip_export", item_id) EXCEPT
               !.value = should_skip_export(disk, item_id, modified_time)]
  /\ UNCHANGED batchVars
  /\ UNCHANGED <<convVars, auth>>

\* the items whose write is interrupted in SpecInterrupted
InterruptedItems ==
  {x \in ExportedItems :
     x.modified_time = <<1>> /\ x.comments # <<>> /\ x.content \in {<<"x">>, <<"b1">>}}

Next ==
  \/ \E item \in ExportedItems : SaveToDisk(item)
  \/ \E item_id \in Ids : LoadFromDisk(item_id)
  \/ \E item_id \in Ids : DeleteFromDisk(item_id)
  \/ \E item_id \in Ids, t \in Times : ShouldSkipExport(item_id, t)

Spec == Init /\ [][Next]_vars

NextInterrupted ==
  \/ \E item \in InterruptedItems : SaveToDisk(item)
  \/ \E item \in InterruptedItems :
       \E k \in 0..(NSteps(item) - 1), trunc \in BOOLEAN : SaveToDiskRaises(item, k, trunc)
  \/ \E item \in InterruptedItems :
       \E k \in 0..(NSteps(item) - 1), trunc \in BOOLEAN : SaveToDiskKilled(item, k, trunc)
  \/ \E item_id \in Ids : LoadFromDisk(item_id)
  \/ \E item_id \in Ids : DeleteFromDisk(item_id)
  \/ \E item_id \in Ids, t \in Times : ShouldSkipExport(item_id, t)

SpecInterrupted == Init /\ [][NextInterrupted]_vars

\* ================================================== GDriveClient (drive.py)
\* The Drive the client talks to.  f1 and f2 are ids files().get() answers
\* with an error; every call to the API can also fail in transit.
DriveItem(type, name, modified_time) ==
  [type |-> type, name |-> name, created_time |-> <<1>>, modified_time |-> modified_time]

DriveItems ==
  [id \in DriveIds |->
     CASE id = "A"  -> DriveItem("DIRECTORY", "folder A", <<1>>)
       [] id = "B"  -> DriveItem("DIRECTORY", "folder B", <<1>>)
       [] id = "C"  -> DriveItem("DIRECTORY", "folder C", <<1>>)
       [] id = "D"  -> DriveItem("DIRECTORY", "folder D", <<1>>)
       [] id = "g1" -> DriveItem("DOCS_DOCUMENT", "doc 1", <<1>>)
       [] id = "g2" -> DriveItem("DOCS_SHEETS", "sheet 2", <<2>>)
       [] id = "s1" -> DriveItem("DOCS_SLIDES", "deck 1", <<1>>)
       [] id = "r1" -> DriveItem("RAW_FILE", "photo.jpg", <<1>>)
       [] id = "u1" -> DriveItem("OTHER", "form", <<1>>)
       [] OTHER     -> DriveItem("NOT_FOUND", "", <<>>)]

\* what files().list() answers for a parent id: B lists its ancestor A, and
\* C is listed by both A and B
DriveChildren ==
  [id \in DriveIds |->
     CASE id = "A" -> <<"g1", "B", "C", "r1">>
       [] id = "B" -> <<"g2", "A", "C">>
       [] id = "C" -> <<"D">>
       [] id = "D" -> <<"u1">>
       [] OTHER    -> <<>>]

ExportableTypes == {"DOCS_DOCUMENT", "DOCS_SLIDES", "DOCS_SHEETS"}
OutputTypes == {"markdown", "pdf"}

HttpError == "HttpError"
IOErrorText == "Failed to save exported item to disk"

\* the ExportedItem export_document builds for a Drive document
export_document(item_id, output_type) ==
  [item_id |-> item_id, item_type |-> DriveItems[item_id].type,
   title |-> DriveItems[item_id].name,
   created_time |-> DriveItems[item_id].created_time,
   modified_time |-> DriveItems[item_id].modified_time,
   content |-> IF output_type = "pdf" THEN <<"b1">> ELSE <<"x">>,
   content_format |-> output_type,
   assets |-> IF output_type = "pdf" THEN <<>> ELSE <<Image1>>,
   comments |-> IF DriveItems[item_id].type = "DOCS_SHEETS" THEN <<>> ELSE <<"c2", "c1">>]

\* ---- the result dicts of _process_single_item and process_item_wrapper
NoEntry == [status |-> "", item_id |-> "", name |-> "", detail |-> <<>>]

skipped_entry(item_id, reason) ==
  [status |-> "skipped", item_id |-> item_id, name |-> DriveItems[item_id].name,
   detail |-> <<reason>>]

success_entry(item_id, path) ==
  [status |-> "success", item_id |-> item_id, name |-> DriveItems[item_id].name,
   detail |-> <<DriveItems[item_id].type, path>>]

\* mutant: the error text is not put into the entry
failure_entry_without_text(item_id, error) ==
  [status |-> "failure", item_id |-> item_id, name |-> DriveItems[item_id].name,
   detail |-> <<>>]

\* except Exception as e in _process_single_item
failure_entry(item_id, error) ==
  [status |-> "failure", item_id |-> item_id, name |-> DriveItems[item_id].name,
   detail |-> <<error>>]

\* except Exception as e in process_item_wrapper (appended to failures directly)
fetch_failure_entry(item_id, error) ==
  [status |-> "failure", item_id |-> item_id, name |-> "Unknown",
   detail |-> <<"Failed to fetch item: ", error>>]

\* mutant: a directory id is handed on to the export
classify_directory_as_document(d, out, item_id) ==
  LET item == DriveItems[item_id]
  IN  IF item.type \in ExportableTypes \cup {"DIRECTORY"}
      THEN IF should_skip_export(d, item_id, item.modified_time)
           THEN skipped_entry(item_id, "Already up-to-date")
           ELSE NoEntry
      ELSE IF item.type = "RAW_FILE"
      THEN IF raw_file_exists(out, item_id, item.name)
           THEN skipped_entry(item_id, "Already downloaded")
           ELSE NoEntry
      ELSE skipped_entry(item_id, "Unsupported type")

\* mutant: the freshness gate also asks for the cached format to be the requested one
classify_by_format(d, out, item_id) ==
  LET item == DriveItems[item_id]
  IN  IF item.type = "DIRECTORY" THEN skipped_entry(item_id, "Directory (not a file)")
      ELSE IF item.type \in ExportableTypes
      THEN IF /\ should_skip_export(d, item_id, item.modified_time)
              /\ d[item_id].metadata.data.content_format = call.output_type
           THEN skipped_entry(item_id, "Already up-to-date")
           ELSE NoEntry
      ELSE IF item.type = "RAW_FILE"
      THEN IF raw_file_exists(out, item_id, item.name)
           THEN skipped_entry(item_id, "Already downloaded")
           ELSE NoEntry
      ELSE skipped_entry(item_id, "Unsupported type")

\* _process_single_item up to the export / download: the entry it returns
\* without exporting, NoEntry when the item has to be exported or downloaded.
\* d is the cache at check_path, out the one at output_path
classify(d, out, item_id) ==
  LET item == DriveItems[item_id]
  IN  IF item.type = "DIRECTORY" THEN skipped_entry(item_id, "Directory (not a file)")
      ELSE IF item.type \in ExportableTypes
      THEN IF should_skip_export(d, item_id, item.modified_time)
           THEN skipped_entry(item_id, "Already up-to-date")
           ELSE NoEntry
      ELSE IF item.type = "RAW_FILE"
      THEN IF raw_file_exists(out, item_id, item.name)
           THEN skipped_entry(item_id, "Already downloaded")
           ELSE NoEntry
      ELSE skipped_entry(item_id, "Unsupported type")

Lists(s, f, k) == [successes |-> s, failures |-> f, skipped |-> k]

\* mutant: the branch for skipped results is missing
record_without_skipped(lists, result) ==
  IF result.status = "success"
  THEN [lists EXCEPT !.successes = Append(@, result)]
  ELSE IF result.status = "failure"
  THEN [lists EXCEPT !.failures = Append(@, result)]
  ELSE lists

\* with results_lock: append the result to the list its status names
record_result(lists, result) ==
  IF result.status = "success"
  THEN [lists EXCEPT !.successes = Append(@, result)]
  ELSE IF result.status = "failure"
  THEN [lists EXCEPT !.failures = Append(@, result)]
  ELSE IF result.status = "skipped"
  THEN [lists EXCEPT !.skipped = Append(@, result)]
  ELSE lists

BatchExportResult(lists) ==
  [total_processed |-> Len(lists.successes) + Len(lists.failures) + Len(lists.skipped),
   successes |-> lists.successes, failures |-> lists.failures, skipped |-> lists.skipped]

\* ---- the work units
\* a task is one call of _process_single_item and the recording of its result:
\* parent is "" for executor.submit(process_item_wrapper, item_id) and the
\* folder being walked for a file found by batch_export; raised is the text
\* of the exception the unit raised, "" when none was raised, and raised_in
\* the call that raised it
\* export is what export_document of the unit was answered and what it made of
\* it, NoExport while the model leaves that open
NoExport == [input |-> <<>>, exported |-> <<>>]
Task(item_id, parent) ==
  [item_id |-> item_id, parent |-> parent, pc |-> "queued", worker |-> 0,
   raised |-> "", raised_in |-> "", result |-> NoEntry, export |-> NoExport]

BatchInputs ==
  { <<"f1", "A", "g1", "f2", "r1">>,
    <<"g1", "g1", "u1">>,
    <<"g2", "r1">>,
    <<>> }

Workers == 1..MaxWorkers
Depths == {<<>>} \cup {<<n>> : n \in 0..MaxDepth}

Busy(w) == \E i \in DOMAIN tasks : tasks[i].worker = w /\ tasks[i].pc \notin {"queued", "done"}
FirstQueued(i) ==
  /\ i \in DOMAIN tasks
  /\ tasks[i].pc = "queued"
  /\ \A j \in DOMAIN tasks : j < i => tasks[j].pc # "queued"

Hierarchical(i) == tasks[i].parent # ""
\* the cache under cache_base_path / actual_output_path of task i
Store(i) == IF Hierarchical(i) THEN children ELSE disk

\* mutant: the freshness check always looks under output_path
check_path_flat(i) == disk

\* check_path = Path(actual_output_path).parent if parent_path else output_path
check_path(i) == IF Hierarchical(i) THEN children ELSE disk

\* ---- the service objects
\* thread 0 is the caller's thread, the threads 1 to max_workers are the
\* workers of the pool
Threads == 0..MaxWorkers
\* a service object build() returned: the thread that built it and which of
\* that thread's thread-local builds it was; build 0 is self.service, built
\* in __init__
Service(built_by, build) == [built_by |-> built_by, build |-> build]
\* _set_thread_service on thread w
set_thread_service(s, w) == IF s[w] = 0 THEN [s EXCEPT ![w] = s[w] + 1] ELSE s
\* mutant: every thread uses self.service
shared_service(s, w) == Service(0, 0)
\* _get_service on thread w
get_service(s, w) == IF s[w] > 0 THEN Service(w, s[w]) ELSE Service(0, 0)
\* self._get_service().<request>.execute() on thread w
api_call(calls, s, w) == calls \cup {[thread |-> w, service |-> get_service(s, w)]}
\* the threads of a new ThreadPoolExecutor have no thread-local service
new_pool(s) == [w \in Threads |-> IF w = 0 THEN s[w] ELSE 0]

\* ---- batch_export_by_ids
BatchExportByIds(item_ids, output_type, max_workers) ==
  /\ call.pc = "idle"
  /\ call' = [NoCall EXCEPT !.pc = "waiting", !.entry = "batch_export_by_ids", !.run = 1,
                            !.item_ids = item_ids, !.output_type = output_type,
                            !.max_workers = max_workers]
  /\ tasks' = [i \in DOMAIN item_ids |-> Task(item_ids[i], "")]
  /\ successes' = <<>>
  /\ failures' = <<>>
  /\ skipped' = <<>>
  /\ UNCHANGED <<auth, conv, disk, ret, results_lock, returned>>
  /\ services' = new_pool(services)
  /\ api_calls' = {}
  /\ UNCHANGED folderVars

\* a free worker thread takes the next submitted call, sets up its
\* thread-local service and fetches the item
FetchItem(w, i) ==
  /\ call.pc = "waiting"
  /\ w \in 1..call.max_workers
  /\ ~Busy(w)
  /\ FirstQueued(i)
  /\ DriveItems[tasks[i].item_id].type # "NOT_FOUND"
  /\ tasks' = [tasks EXCEPT ![i].pc = "fetched", ![i].worker = w]
  /\ services' = set_thread_service(services, w)
  /\ api_calls' = api_call(api_calls, services', w)
  /\ UNCHANGED <<auth, conv, disk, ret, call, successes, failures, skipped, results_lock, returned>>
  /\ UNCHANGED folderVars

\* files().get().execute() raises: the wrapper's except builds the failure
FetchItemFails(w, i) ==
  /\ call.pc = "waiting"
  /\ w \in 1..call.max_workers
  /\ ~Busy(w)
  /\ FirstQueued(i)
  /\ tasks' = [tasks EXCEPT ![i].pc = "processed", ![i].worker = w,
                            ![i].raised = HttpError, ![i].raised_in = "fetch",
                            ![i].result = fetch_failure_entry(tasks[i].item_id, HttpError)]
  /\ services' = set_thread_service(services, w)
  /\ api_calls' = api_call(api_calls, services', w)
  /\ UNCHANGED <<auth, conv, disk, ret, call, successes, failures, skipped, results_lock, returned>>
  /\ UNCHANGED folderVars

\* ---- _process_single_item
\* up to the cache check
ProcessSingleItem(i) ==
  /\ i \in DOMAIN tasks
  /\ tasks[i].pc = "fetched"
  /\ LET r == classify(check_path(i), disk, tasks[i].item_id)
     IN  tasks' = IF r = NoEntry THEN [tasks EXCEPT ![i].pc = "exporting"]
                  ELSE [tasks EXCEPT ![i].pc = "processed", ![i].result = r]
  /\ UNCHANGED <<auth, conv, disk, ret, call, successes, failures, skipped, results_lock, services, api_calls, returned>>
  /\ UNCHANGED folderVars

IsDocument(i) == DriveItems[tasks[i].item_id].type \in ExportableTypes

\* what task i leaves in the cache it writes to
Stored(i, d) ==
  /\ IF Hierarchical(i) THEN children' = d /\ UNCHANGED disk
                        ELSE disk' = d /\ UNCHANGED children
  /\ UNCHANGED <<folders, stack, visited, raised_folders, entered>>

\* item_dir.mkdir(parents=True, exist_ok=True)
mkdir_item_dir(d, item_id) == [d EXCEPT ![item_id].exists = TRUE]

\* export_document(..., save_to_disk=True) returns
ExportDocument(i) ==
  /\ i \in DOMAIN tasks
  /\ tasks[i].pc = "exporting"
  /\ IsDocument(i)
  /\ Stored(i, save_to_disk(Store(i), export_document(tasks[i].item_id, call.output_type)))
  /\ tasks' = [tasks EXCEPT ![i].pc = "processed",
                            ![i].result = success_entry(tasks[i].item_id, tasks[i].item_id)]
  /\ UNCHANGED <<auth, conv, ret, call, successes, failures, skipped, results_lock, services, returned>>
  /\ api_calls' = api_call(api_calls, services, tasks[i].worker)

\* export_document raises while fetching or converting: nothing is saved
ExportDocumentFails(i) ==
  /\ i \in DOMAIN tasks
  /\ tasks[i].pc = "exporting"
  /\ IsDocument(i)
  /\ Stored(i, IF Hierarchical(i) THEN mkdir_item_dir(children, tasks[i].item_id) ELSE disk)
  /\ tasks' = [tasks EXCEPT ![i].pc = "processed", ![i].raised = HttpError,
                            ![i].raised_in = "export",
                            ![i].result = failure_entry(tasks[i].item_id, HttpError)]
  /\ UNCHANGED <<auth, conv, ret, call, successes, failures, skipped, results_lock, services, returned>>
  /\ api_calls' = api_call(api_calls, services, tasks[i].worker)

\* cache.save_to_disk raises inside export_document after k statements
CacheWriteFails(i, k, trunc) ==
  /\ i \in DOMAIN tasks
  /\ tasks[i].pc = "exporting"
  /\ IsDocument(i)
  /\ k < NSteps(export_document(tasks[i].item_id, call.output_type))
  /\ Stored(i, save_interrupted(Store(i), export_document(tasks[i].item_id, call.output_type),
                                k, trunc))
  /\ tasks' = [tasks EXCEPT ![i].pc = "processed", ![i].raised = IOErrorText,
                            ![i].raised_in = "cache write",
                            ![i].result = failure_entry(tasks[i].item_id, IOErrorText)]
  /\ UNCHANGED <<auth, conv, ret, call, successes, failures, skipped, results_lock, services, returned>>
  /\ api_calls' = api_call(api_calls, services, tasks[i].worker)

\* download_file writes the raw file into the item directory
DownloadFile(i) ==
  /\ i \in DOMAIN tasks
  /\ tasks[i].pc = "exporting"
  /\ ~IsDocument(i)
  /\ Stored(i, [mkdir_item_dir(Store(i), tasks[i].item_id)
                  EXCEPT ![tasks[i].item_id].raw = Full(<<"b1">>)])
  /\ tasks' = [tasks EXCEPT ![i].pc = "processed",
                            ![i].result = success_entry(tasks[i].item_id,
                                                        DriveItems[tasks[i].item_id].name)]
  /\ UNCHANGED <<auth, conv, ret, call, successes, failures, skipped, results_lock, services, returned>>
  /\ api_calls' = api_call(api_calls, services, tasks[i].worker)

\* download_file raises: the item directory was made, the file was not written
DownloadFileFails(i) ==
  /\ i \in DOMAIN tasks
  /\ tasks[i].pc = "exporting"
  /\ ~IsDocument(i)
  /\ Stored(i, mkdir_item_dir(Store(i), tasks[i].item_id))
  /\ tasks' = [tasks EXCEPT ![i].pc = "processed", ![i].raised = HttpError,
                            ![i].raised_in = "download",
                            ![i].result = failure_entry(tasks[i].item_id, HttpError)]
  /\ UNCHANGED <<auth, conv, ret, call, successes, failures, skipped, results_lock, services, returned>>
  /\ api_calls' = api_call(api_calls, services, tasks[i].worker)

\* with results_lock: (enter)
AcquireResultsLock(i) ==
  /\ i \in DOMAIN tasks
  /\ tasks[i].pc = "processed"
  /\ results_lock = 0
  /\ results_lock' = i
  /\ tasks' = [tasks EXCEPT ![i].pc = "locked"]
  /\ UNCHANGED <<auth, conv, disk, ret, call, successes, failures, skipped, services, api_calls, returned>>
  /\ UNCHANGED folderVars

\* the append under the lock and the lock's release
AppendResult(i) ==
  /\ i \in DOMAIN tasks
  /\ tasks[i].pc = "locked"
  /\ results_lock = i
  /\ LET lists == record_result(Lists(successes, failures, skipped), tasks[i].result)
     IN  /\ successes' = lists.successes
         /\ failures' = lists.failures
         /\ skipped' = lists.skipped
  /\ results_lock' = 0
  /\ tasks' = [tasks EXCEPT ![i].pc = "done"]
  /\ UNCHANGED <<auth, conv, disk, ret, call, services, api_calls, returned>>
  /\ UNCHANGED folderVars

\* every future has completed: the executor shuts down, the result is returned
ReturnBatchResult ==
  /\ call.pc = "waiting"
  /\ \A i \in DOMAIN tasks : tasks[i].pc = "done"
  /\ returned' = BatchExportResult(Lists(successes, failures, skipped))
  /\ call' = [call EXCEPT !.pc = "returned"]
  /\ UNCHANGED <<auth, conv, disk, ret, tasks, successes, failures, skipped, results_lock, services, api_calls>>
  /\ UNCHANGED folderVars

\* ---- batch_export
\* one activation of collect_and_export_recursive: has_item is FALSE when
\* current_folder_item is None; pc is "enter", "list" or "loop"; items is
\* what is left of the listing the for loop walks
Frame(folder_id, has_item, current_depth) ==
  [folder_id |-> folder_id, has_item |-> has_item, current_depth |-> current_depth,
   pc |-> "enter", items |-> <<>>]

FolderInputs == {"A", "B", "f1"}

folder_metadata(folder_id, has_item) ==
  [item_id |-> folder_id, item_type |-> "directory",
   name |-> IF has_item THEN DriveItems[folder_id].name ELSE "Root",
   created_time |-> IF has_item THEN DriveItems[folder_id].created_time ELSE <<>>,
   modified_time |-> IF has_item THEN DriveItems[folder_id].modified_time ELSE <<>>]

\* except Exception as e in collect_and_export_recursive
folder_failure_entry(folder_id, has_item, error) ==
  [status |-> "failure", item_id |-> folder_id,
   name |-> IF has_item THEN DriveItems[folder_id].name ELSE "Unknown",
   detail |-> <<"Failed to process folder: ", error>>]

\* if depth is None or current_depth < depth
within_depth(depth, current_depth) == depth = <<>> \/ current_depth < depth[1]

AllDone == \A i \in DOMAIN tasks : tasks[i].pc = "done"

BatchExport(folder_id, depth, output_type, max_workers) ==
  /\ call.pc = "idle"
  /\ call' = [NoCall EXCEPT !.pc = "fetch_root", !.entry = "batch_export", !.run = 1,
                            !.folder_id = folder_id, !.depth = depth,
                            !.output_type = output_type, !.max_workers = max_workers]
  /\ tasks' = <<>>
  /\ successes' = <<>>
  /\ failures' = <<>>
  /\ skipped' = <<>>
  /\ UNCHANGED <<auth, conv, disk, ret, results_lock, services, returned>>
  /\ api_calls' = {}
  /\ UNCHANGED folderVars

\* root_folder_item = self.get_item(folder_id), then the walk starts on the
\* caller's thread (worker 0) with its own service
GetRootFolderItem ==
  /\ call.pc = "fetch_root"
  /\ DriveItems[call.folder_id].type # "NOT_FOUND"
  /\ call' = [call EXCEPT !.pc = "walking"]
  /\ api_calls' = api_call(api_calls, services, 0)
  /\ services' = set_thread_service(services, 0)
  /\ stack' = <<Frame(call.folder_id, TRUE, 0)>>
  /\ UNCHANGED <<auth, conv, disk, ret, tasks, successes, failures, skipped, results_lock, returned>>
  /\ UNCHANGED <<children, folders, visited, raised_folders, entered>>

\* get_item raises: root_folder_item = None and the walk starts all the same
GetRootFolderItemFails ==
  /\ call.pc = "fetch_root"
  /\ call' = [call EXCEPT !.pc = "walking"]
  /\ api_calls' = api_call(api_calls, services, 0)
  /\ services' = set_thread_service(services, 0)
  /\ stack' = <<Frame(call.folder_id, FALSE, 0)>>
  /\ UNCHANGED <<auth, conv, disk, ret, tasks, successes, failures, skipped, results_lock, returned>>
  /\ UNCHANGED <<children, folders, visited, raised_folders, entered>>

\* mutant: the guard against circular references is missing
never_visited(v, folder_id) == FALSE

\* if current_folder_id in visited
already_visited(v, folder_id) == folder_id \in v

\* collect_and_export_recursive from its entry to the metadata.json it writes
EnterFolder ==
  /\ call.pc = "walking"
  /\ stack # <<>>
  /\ Head(stack).pc = "enter"
  /\ LET top == Head(stack)
     IN  IF already_visited(visited, top.folder_id)
         THEN /\ stack' = Tail(stack)
              /\ UNCHANGED <<folders, visited, entered>>
         ELSE /\ visited' = visited \cup {top.folder_id}
              /\ entered' = Append(entered, top.folder_id)
              /\ folders' = [folders EXCEPT
                   ![top.folder_id].exists = TRUE,
                   ![top.folder_id].metadata =
                       Full(folder_metadata(top.folder_id, top.has_item))]
              /\ stack' = <<[top EXCEPT !.pc = "list"]>> \o Tail(stack)
  /\ UNCHANGED <<auth, conv, disk, ret, call, tasks, successes, failures, skipped, results_lock,
                 services, api_calls, returned, children, raised_folders>>

\* items = self.list_items(current_folder_id); children_dir.mkdir
ListItems ==
  /\ call.pc = "walking"
  /\ stack # <<>>
  /\ Head(stack).pc = "list"
  /\ LET top == Head(stack)
     IN  /\ stack' = <<[top EXCEPT !.pc = "loop", !.items = DriveChildren[top.folder_id]]>>
                      \o Tail(stack)
         /\ folders' = [folders EXCEPT ![top.folder_id].children = TRUE]
  /\ UNCHANGED <<auth, conv, disk, ret, call, tasks, successes, failures, skipped, results_lock,
                 services, returned, children, visited, raised_folders, entered>>
  /\ api_calls' = api_call(api_calls, services, 0)

\* list_items raises: the except clause records the folder and returns
ListItemsFails ==
  /\ call.pc = "walking"
  /\ stack # <<>>
  /\ Head(stack).pc = "list"
  /\ LET top == Head(stack)
     IN  /\ failures' = Append(failures,
                               folder_failure_entry(top.folder_id, top.has_item, HttpError))
         /\ raised_folders' = raised_folders \cup {top.folder_id}
  /\ stack' = Tail(stack)
  /\ UNCHANGED <<auth, conv, disk, ret, call, tasks, successes, skipped, results_lock,
                 services, returned, children, folders, visited, entered>>
  /\ api_calls' = api_call(api_calls, services, 0)

\* for item in items: recurse into a directory within the depth limit, hand a
\* file to _process_single_item
NextItem ==
  /\ call.pc = "walking"
  /\ stack # <<>>
  /\ Head(stack).pc = "loop"
  /\ Head(stack).items # <<>>
  /\ AllDone
  /\ LET top  == Head(stack)
         item == Head(top.items)
         rest == <<[top EXCEPT !.items = Tail(top.items)]>> \o Tail(stack)
     IN  IF DriveItems[item].type = "DIRECTORY"
         THEN /\ stack' = IF within_depth(call.depth, top.current_depth)
                          THEN <<Frame(item, TRUE, top.current_depth + 1)>> \o rest
                          ELSE rest
              /\ UNCHANGED tasks
         ELSE /\ stack' = rest
              /\ tasks' = Append(tasks, [Task(item, top.folder_id) EXCEPT !.pc = "fetched"])
  /\ UNCHANGED <<auth, conv, disk, ret, call, successes, failures, skipped, results_lock,
                 services, api_calls, returned, children, folders, visited, raised_folders, entered>>

\* the for loop is over: collect_and_export_recursive returns
LeaveFolder ==
  /\ call.pc = "walking"
  /\ stack # <<>>
  /\ Head(stack).pc = "loop"
  /\ Head(stack).items = <<>>
  /\ AllDone
  /\ stack' = Tail(stack)
  /\ UNCHANGED <<auth, conv, disk, ret, call, tasks, successes, failures, skipped, results_lock,
                 services, api_calls, returned, children, folders, visited, raised_folders, entered>>

\* the outermost activation has returned: the result is built and returned
ReturnFolderResult ==
  /\ call.pc = "walking"
  /\ stack = <<>>
  /\ returned' = BatchExportResult(Lists(successes, failures, skipped))
  /\ call' = [call EXCEPT !.pc = "returned"]
  /\ UNCHANGED <<auth, conv, disk, ret, tasks, successes, failures, skipped, results_lock, services, api_calls>>
  /\ UNCHANGED folderVars

TaskIds == 1..5

NextBatch ==
  \/ \E item_ids \in BatchInputs, output_type \in OutputTypes, max_workers \in Workers :
       BatchExportByIds(item_ids, output_type, max_workers)
  \/ \E w \in Workers, i \in TaskIds : FetchItem(w, i)
  \/ \E w \in Workers, i \in TaskIds : FetchItemFails(w, i)
  \/ \E i \in TaskIds : ProcessSingleItem(i)
  \/ \E i \in TaskIds : ExportDocument(i)
  \/ \E i \in TaskIds : ExportDocumentFails(i)
  \/ \E i \in TaskIds, k \in 0..5, trunc \in BOOLEAN : CacheWriteFails(i, k, trunc)
  \/ \E i \in TaskIds : DownloadFile(i)
  \/ \E i \in TaskIds : DownloadFileFails(i)
  \/ \E i \in TaskIds : AcquireResultsLock(i)
  \/ \E i \in TaskIds : AppendResult(i)
  \/ ReturnBatchResult
  \/ \E folder_id \in FolderInputs, depth \in Depths, output_type \in OutputTypes,
        max_workers \in Workers : BatchExport(folder_id, depth, output_type, max_workers)
  \/ GetRootFolderItem
  \/ GetRootFolderItemFails
  \/ EnterFolder
  \/ ListItems
  \/ ListItemsFails
  \/ NextItem
  \/ LeaveFolder
  \/ ReturnFolderResult

SpecBatch == Init /\ [][NextBatch]_vars

\* batch_export alone.  The walk and the units it processes run on the
\* caller's thread, one statement after the other: a step that can be taken
\* is taken
NextFolder ==
  \/ \E folder_id \in FolderInputs, depth \in Depths, output_type \in OutputTypes :
       BatchExport(folder_id, depth, output_type, MaxWorkers)
  \/ GetRootFolderItem
  \/ GetRootFolderItemFails
  \/ EnterFolder
  \/ ListItems
  \/ ListItemsFails
  \/ NextItem
  \/ LeaveFolder
  \/ ReturnFolderResult
  \/ \E i \in TaskIds : ProcessSingleItem(i)
  \/ \E i \in TaskIds : ExportDocument(i)
  \/ \E i \in TaskIds : ExportDocumentFails(i)
  \/ \E i \in TaskIds : CacheWriteFails(i, 3, TRUE)
  \/ \E i \in TaskIds : DownloadFile(i)
  \/ \E i \in TaskIds : DownloadFileFails(i)
  \/ \E i \in TaskIds : AcquireResultsLock(i)
  \/ \E i \in TaskIds : AppendResult(i)

SpecFolder == Init /\ [][NextFolder]_vars /\ WF_vars(NextFolder)

\* ---- the same call made a second time, over what the first one left on disk
BatchExportByIdsAgain ==
  /\ call.pc = "returned"
  /\ call.entry = "batch_export_by_ids"
  /\ call.run = 1
  /\ call' = [call EXCEPT !.pc = "waiting", !.run = 2]
  /\ tasks' = [i \in DOMAIN call.item_ids |-> Task(call.item_ids[i], "")]
  /\ successes' = <<>>
  /\ failures' = <<>>
  /\ skipped' = <<>>
  /\ UNCHANGED <<auth, conv, disk, ret, results_lock, returned>>
  /\ services' = new_pool(services)
  /\ api_calls' = {}
  /\ UNCHANGED folderVars

BatchExportAgain ==
  /\ call.pc = "returned"
  /\ call.entry = "batch_export"
  /\ call.run = 1
  /\ call' = [call EXCEPT !.pc = "fetch_root", !.run = 2]
  /\ tasks' = <<>>
  /\ successes' = <<>>
  /\ failures' = <<>>
  /\ skipped' = <<>>
  /\ stack' = <<>>
  /\ visited' = {}
  /\ raised_folders' = {}
  /\ entered' = <<>>
  /\ UNCHANGED <<auth, conv, disk, ret, results_lock, services, returned, children, folders>>
  /\ api_calls' = {}

RerunInputs == { <<"g1", "r1">>, <<"g1", "g1">> }

NextRerun ==
  \/ \E item_ids \in RerunInputs, output_type \in OutputTypes :
       BatchExportByIds(item_ids, output_type, MaxWorkers)
  \/ BatchExportByIdsAgain
  \/ \E w \in Workers, i \in TaskIds : FetchItem(w, i)
  \/ \E w \in Workers, i \in TaskIds : FetchItemFails(w, i)
  \/ ReturnBatchResult
  \/ \E output_type \in OutputTypes : BatchExport("A", <<1>>, output_type, MaxWorkers)
  \/ BatchExportAgain
  \/ GetRootFolderItem
  \/ GetRootFolderItemFails
  \/ EnterFolder
  \/ ListItems
  \/ ListItemsFails
  \/ NextItem
  \/ LeaveFolder
  \/ ReturnFolderResult
  \/ \E i \in TaskIds : ProcessSingleItem(i)
  \/ \E i \in TaskIds : ExportDocument(i)
  \/ \E i \in TaskIds : ExportDocumentFails(i)
  \/ \E i \in TaskIds : CacheWriteFails(i, 3, TRUE)
  \/ \E i \in TaskIds : DownloadFile(i)
  \/ \E i \in TaskIds : DownloadFileFails(i)
  \/ \E i \in TaskIds : AcquireResultsLock(i)
  \/ \E i \in TaskIds : AppendResult(i)

SpecRerun == Init /\ [][NextRerun]_vars

\* ============================================ export/docs/converters.py
\* Markdown is a sequence of characters and of image constructs, each image
\* construct being one token.  "IMG" stands for one inline image
\* ![x](data:image/png;base64,AAAA); "NL" is a line break.
Chars == {"a", "b", "1"}
RECURSIVE SeqsUpTo(_, _)
SeqsUpTo(S, n) ==
  IF n = 0 THEN {<<>>}
  ELSE LET shorter == SeqsUpTo(S, n - 1)
       IN  shorter \cup {Append(t, c) : t \in shorter, c \in S}

\* exports with images: reference style and inline, good and bad payloads
DocImageContents ==
  { <<"a", "IMG", "b">>,
    <<"IMG", "IMG">>,
    <<"![x](data:image/png;base64,A)", "IMG">>,
    <<"![][image1]", "NL", "[image1]: <data:image/png;base64,AAAA>">>,
    <<"![][image1]", "a", "![][image1]", "NL", "[image1]: <data:image/png;base64,AAAA>">>,
    <<"![logo][image1]", "NL", "[image1]: <data:image/png;base64,AAAA>">>,
    <<"![][image1]", "NL", "[image1]: <data:image/png;base64,A>">>,
    <<"![][image1]", "[image1]: <data:image/png;base64,AAAA>">>,
    <<"![][image1]", "NL", "[image1]: <data:image/png;base64,AAAA>", "NL",
      "[image1]: <data:image/png;base64,AAAA>">>,
    <<"![][asset_002]", "IMG", "NL", "[asset_002]: <data:image/png;base64,AAAA>">>,
    <<"![][image1]", "IMG", "NL", "[image1]: <data:image/png;base64,AAAA>">> }
DocContents == (SeqsUpTo(Chars, MaxLen) \ {<<>>}) \cup DocImageContents
Snippets == {<<>>, <<"a">>, <<"b">>, <<"1">>, <<"a", "b">>, <<"b", "a">>}

\* a comment dict of get_comments; snippet <<>> is a missing or empty snippet
Comment(content, snippet, replies) ==
  [content |-> content, snippet |-> snippet, replies |-> replies]
CommentIds == <<"c1", "c2", "c3">>
RepliesOf(n) == IF n = 1 THEN <<"r1", "r2">> ELSE <<>>
RECURSIVE CommentListsOfLen(_)
CommentListsOfLen(n) ==
  IF n = 0 THEN {<<>>}
  ELSE {Append(cs, Comment(CommentIds[n], snippet, RepliesOf(n))) :
          cs \in CommentListsOfLen(n - 1), snippet \in Snippets}
DocComments == UNION {CommentListsOfLen(n) : n \in 0..MaxComments}

\* the first index at which sub occurs in s, 0 when it does not occur
IndexOf(s, sub) ==
  LET at == {i \in 1..(Len(s) - Len(sub) + 1) : SubSeq(s, i, i + Len(sub) - 1) = sub}
  IN  IF at = {} THEN 0 ELSE CHOOSE i \in at : \A j \in at : i <= j

NumChars == <<"1", "2", "3", "4", "5", "6", "7", "8", "9">>
\* f'[{comment_num}]'
Marker(comment_num) == <<"[", NumChars[comment_num], "]">>

\* re.sub(f'({re.escape(snippet)})', f'\\1[{comment_num}]', content, count=1)
re_sub_once(content, snippet, comment_num) ==
  LET i == IndexOf(content, snippet)
  IN  IF i = 0 THEN content
      ELSE SubSeq(content, 1, i + Len(snippet) - 1) \o Marker(comment_num)
             \o SubSeq(content, i + Len(snippet), Len(content))

\* the loop over top_level_anchors from index idx on; the html export is
\* used for nothing but the number of its cmnt_ref anchors
RECURSIVE AddMarkers(_, _, _, _)
AddMarkers(markdown_content, comments, idx, num_anchors) ==
  IF idx > num_anchors \/ idx > Len(comments) THEN markdown_content
  ELSE LET snippet == comments[idx].snippet
       IN  AddMarkers(IF snippet # <<>>
                      THEN re_sub_once(markdown_content, snippet, idx)
                      ELSE markdown_content,
                      comments, idx + 1, num_anchors)

add_comment_markers_to_markdown(markdown_content, html_anchors, comments) ==
  IF comments = <<>> THEN markdown_content
  ELSE AddMarkers(markdown_content, comments, 1, html_anchors)

\* one line of the comment section
Line(kind, num, text) == [kind |-> kind, num |-> num, text |-> text]
Blank == Line("blank", 0, "")

RECURSIVE ReplyLines(_, _)
ReplyLines(replies, num) ==
  IF replies = <<>> THEN <<>>
  ELSE <<Line("reply", num, Head(replies))>> \o ReplyLines(Tail(replies), num)

\* for idx, comment in enumerate(comments): heading, comment line, replies
RECURSIVE CommentLines(_, _)
CommentLines(comments, idx) ==
  IF idx > Len(comments) THEN <<>>
  ELSE <<Line("heading", idx, ""), Blank,
         Line("comment", idx, comments[idx].content), Blank>>
       \o ReplyLines(comments[idx].replies, idx)
       \o (IF comments[idx].replies # <<>> THEN <<Blank>> ELSE <<>>)
       \o CommentLines(comments, idx + 1)

\* the lines add_comment_section joins and appends to the markdown
add_comment_section(comments) ==
  IF comments = <<>> THEN <<>>
  ELSE <<Blank, Line("rule", 0, "---"), Blank, Line("title", 0, "Comments:"), Blank>>
       \o CommentLines(comments, 1)

\* the image constructs of a markdown export, each one token of the content:
\* reference definitions `[ref]: <data:image/png;base64,...>`, reference uses
\* `![][ref]` and `![alt][ref]`, and inline images `![x](data:...)` ("IMG");
\* a payload "A" is base64 with incorrect padding, which b64decode rejects
DefTokens ==
  {"[image1]: <data:image/png;base64,AAAA>", "[image1]: <data:image/png;base64,A>",
   "[asset_002]: <data:image/png;base64,AAAA>"}
InlineTokens == {"IMG", "![x](data:image/png;base64,A)"}
\* match.group(1) of ref_pattern
ref_name(token) ==
  IF token = "[asset_002]: <data:image/png;base64,AAAA>" THEN "asset_002" ELSE "image1"
\* base64.b64decode(base64_data) returns
decodes(token) ==
  token \in {"[image1]: <data:image/png;base64,AAAA>",
             "[asset_002]: <data:image/png;base64,AAAA>", "IMG"}
\* f"{ref_name}{extension}" for image/png
ref_asset_name(ref) == IF ref = "asset_002" THEN "asset_002.png" ELSE "image1.png"
\* f"[{ref_name}]: assets/{asset_name}"
rewritten_definition(ref) ==
  IF ref = "asset_002" THEN "[asset_002]: assets/asset_002.png"
  ELSE "[image1]: assets/image1.png"
\* rf'!\[\]\[{re.escape(ref_name)}\]'
empty_alt_use(ref) == IF ref = "asset_002" THEN "![][asset_002]" ELSE "![][image1]"
\* f'![{ref_name}](assets/{asset.name})'
inline_use(ref) ==
  IF ref = "asset_002" THEN "![asset_002](assets/asset_002.png)"
  ELSE "![image1](assets/image1.png)"
\* f"asset_{asset_counter:03d}{extension}" for image/png
InlineAssetNames ==
  <<"asset_001.png", "asset_002.png", "asset_003.png", "asset_004.png", "asset_005.png",
    "asset_006.png", "asset_007.png", "asset_008.png", "asset_009.png">>
\* f"asset_{asset_counter:03d}"
InlineAssetAnchors ==
  <<"asset_001", "asset_002", "asset_003", "asset_004", "asset_005",
    "asset_006", "asset_007", "asset_008", "asset_009">>
\* f"![{alt_text}](assets/{asset_name})"
InlineLinks ==
  <<"![x](assets/asset_001.png)", "![x](assets/asset_002.png)",
    "![x](assets/asset_003.png)", "![x](assets/asset_004.png)",
    "![x](assets/asset_005.png)", "![x](assets/asset_006.png)",
    "![x](assets/asset_007.png)", "![x](assets/asset_008.png)",
    "![x](assets/asset_009.png)">>
\* the ExportedAsset of the docs converter
DocAsset(name, anchor) == [name |-> name, anchor |-> anchor, content |-> "data"]

\* re.sub(ref_pattern, replace_reference, ...): every definition that decodes
\* is rewritten and gives an asset; asset_counter counts them
RECURSIVE replace_reference(_, _)
replace_reference(markdown_content, asset_counter) ==
  IF markdown_content = <<>>
  THEN [markdown |-> <<>>, assets |-> <<>>, asset_counter |-> asset_counter]
  ELSE LET token == Head(markdown_content)
           extracted == token \in DefTokens /\ decodes(token)
           rest == replace_reference(Tail(markdown_content),
                                     IF extracted THEN asset_counter + 1 ELSE asset_counter)
       IN  IF extracted
           THEN [markdown |-> <<rewritten_definition(ref_name(token))>> \o rest.markdown,
                 assets |-> <<DocAsset(ref_asset_name(ref_name(token)), ref_name(token))>>
                              \o rest.assets,
                 asset_counter |-> rest.asset_counter]
           ELSE [markdown |-> <<token>> \o rest.markdown,
                 assets |-> rest.assets,
                 asset_counter |-> rest.asset_counter]

\* the token at place i is a whole line (^...$ with re.MULTILINE)
WholeLine(markdown_content, i) ==
  /\ i = 1 \/ markdown_content[i - 1] = "NL"
  /\ i = Len(markdown_content) \/ markdown_content[i + 1] = "NL"

\* the two re.sub calls for one asset: uses with an empty alt text become
\* inline, and the rewritten definition is deleted where it is a whole line
inline_reference(markdown_content, ref) ==
  LET inlined == [i \in DOMAIN markdown_content |->
                    IF markdown_content[i] = empty_alt_use(ref) THEN inline_use(ref)
                    ELSE markdown_content[i]]
      kept == {i \in DOMAIN inlined :
                 ~(inlined[i] = rewritten_definition(ref) /\ WholeLine(inlined, i))}
  IN  [k \in 1..Cardinality(kept) |->
         inlined[CHOOSE i \in kept : Cardinality({j \in kept : j <= i}) = k]]

\* for asset in assets
RECURSIVE inline_references(_, _)
inline_references(markdown_content, assets) ==
  IF assets = <<>> THEN markdown_content
  ELSE inline_references(inline_reference(markdown_content, Head(assets).anchor),
                         Tail(assets))

\* re.sub(inline_pattern, replace_inline, ...): every inline image that
\* decodes becomes a link to its asset, named by asset_counter
RECURSIVE replace_inline(_, _)
replace_inline(markdown_content, asset_counter) ==
  IF markdown_content = <<>> THEN [markdown |-> <<>>, assets |-> <<>>]
  ELSE LET token == Head(markdown_content)
           extracted == token \in InlineTokens /\ decodes(token)
           rest == replace_inline(Tail(markdown_content),
                                  IF extracted THEN asset_counter + 1 ELSE asset_counter)
       IN  IF extracted
           THEN [markdown |-> <<InlineLinks[asset_counter]>> \o rest.markdown,
                 assets |-> <<DocAsset(InlineAssetNames[asset_counter],
                                       InlineAssetAnchors[asset_counter])>> \o rest.assets]
           ELSE [markdown |-> <<token>> \o rest.markdown, assets |-> rest.assets]

\* extract_assets_from_markdown
extract_assets_from_markdown(markdown_content) ==
  LET references == replace_reference(markdown_content, 1)
      inline == replace_inline(inline_references(references.markdown, references.assets),
                               references.asset_counter)
  IN  [markdown |-> inline.markdown, assets |-> references.assets \o inline.assets]

\* the returned string is markdown followed by the lines of section
process_docs_markdown_export(markdown_content, html_anchors, comments) ==
  LET extracted == extract_assets_from_markdown(markdown_content)
  IN  [markdown |-> IF comments # <<>>
                    THEN add_comment_markers_to_markdown(extracted.markdown, html_anchors,
                                                         comments)
                    ELSE extracted.markdown,
       section |-> add_comment_section(comments),
       assets |-> extracted.assets]

ProcessDocsMarkdownExport(markdown_content, html_anchors, comments) ==
  /\ conv = NoConv
  /\ conv' = [op |-> "process_docs_markdown_export",
              markdown_content |-> markdown_content,
              html_anchors |-> html_anchors,
              comments |-> comments,
              result |-> process_docs_markdown_export(markdown_content, html_anchors,
                                                      comments)]
  /\ UNCHANGED <<cacheVars, batchVars, auth>>

NextDocs ==
  \E markdown_content \in DocContents, html_anchors \in 0..MaxComments,
     comments \in DocComments :
       ProcessDocsMarkdownExport(markdown_content, html_anchors, comments)

SpecDocs == Init /\ [][NextDocs]_vars

\* ------------------------------------------------ sheets converters
\* the characters str.strip() removes
Whitespace == {" ", "NL"}
RECURSIVE LStrip(_)
LStrip(s) ==
  IF s # <<>> /\ Head(s) \in Whitespace THEN LStrip(Tail(s)) ELSE s
RECURSIVE RStrip(_)
RStrip(s) ==
  IF s # <<>> /\ s[Len(s)] \in Whitespace THEN RStrip(SubSeq(s, 1, Len(s) - 1)) ELSE s
Strip(s) == RStrip(LStrip(s))

\* str(cell_value) of the cell values read; <<>> is None or the empty string
SheetRows ==
  { <<>>,
    << <<"x">> >>,
    << <<"a">>, <<"b">>, <<"c">> >>,
    << <<"a", "|", "b">>, <<"a">> >>,
    << <<" ", "a">>, <<>> >>,
    << <<"a", "NL", "b">>, <<"b">> >> }
SheetDataRows == SeqsUpTo(SheetRows, MaxRows)
\* one dict of fetch_spreadsheet_data
Sheet(sheet_id, sheet_name, data_rows) ==
  [sheet_id |-> sheet_id, sheet_name |-> sheet_name, data_rows |-> data_rows]
SheetsData == {<<Sheet("0", "Sheet1", data_rows)>> : data_rows \in SheetDataRows}

\* a comment dict with its anchor; anchor "" is a missing anchor, any other
\* anchor is the uid of {"type":"workbook-range","uid":...,"range":...}; range
\* is the cell (row, column) of the sheet that the range id of the anchor denotes
SheetComment(content, snippet, anchor, range, replies) ==
  [content |-> content, snippet |-> snippet, anchor |-> anchor, range |-> range,
   replies |-> replies]
SheetSnippets == {<<>>, <<"a">>, <<"q">>, <<"a", " ">>}
SheetAnchors == {"", "0", "9"}
SheetRanges == {<<1, 1>>, <<2, 2>>}
RECURSIVE SheetCommentListsOfLen(_)
SheetCommentListsOfLen(n) ==
  IF n = 0 THEN {<<>>}
  ELSE {Append(cs, SheetComment(CommentIds[n], snippet, anchor, range, RepliesOf(n))) :
          cs \in SheetCommentListsOfLen(n - 1), snippet \in SheetSnippets,
          anchor \in SheetAnchors, range \in SheetRanges}
SheetComments == UNION {SheetCommentListsOfLen(n) : n \in 0..MaxComments}

\* the key f"{sheet_name}:{row_idx}:{col_idx}", rows and columns counted from 1
Key(sheet_name, row_idx, col_idx) ==
  [sheet_name |-> sheet_name, row |-> row_idx, col |-> col_idx]
NoKey == Key("", 0, 0)

\* the first cell of data_rows, row by row, whose stripped text is the snippet
MatchingCells(data_rows, snippet) ==
  {rc \in UNION {{<<r, c>> : c \in DOMAIN data_rows[r]} : r \in DOMAIN data_rows} :
     Strip(data_rows[rc[1]][rc[2]]) = snippet}
FirstCell(cells) ==
  CHOOSE rc \in cells :
    \A other \in cells : rc[1] < other[1] \/ (rc[1] = other[1] /\ rc[2] <= other[2])

\* the key one comment is filed under by _map_comments_to_cells, NoKey when
\* the loop continues without filing it
comment_key(comment, sheets_data) ==
  LET snippet == Strip(comment.snippet)
      sheet_ids == {n \in DOMAIN sheets_data : sheets_data[n].sheet_id = comment.anchor}
  IN  IF comment.anchor = "" \/ snippet = <<>> THEN NoKey
      ELSE IF sheet_ids = {} THEN NoKey
      ELSE LET sheet == sheets_data[CHOOSE n \in sheet_ids : \A m \in sheet_ids : m <= n]
               cells == MatchingCells(sheet.data_rows, snippet)
           IN  IF cells = {} THEN NoKey
               ELSE Key(sheet.sheet_name, FirstCell(cells)[1], FirstCell(cells)[2])

\* cell_to_comments[key] of _map_comments_to_cells: the comment numbers filed
\* under key, in the order of the comment list
RECURSIVE map_comments_to_cells(_, _, _, _)
map_comments_to_cells(comments, sheets_data, key, idx) ==
  IF idx > Len(comments) THEN <<>>
  ELSE (IF comment_key(comments[idx], sheets_data) = key THEN <<idx>> ELSE <<>>)
       \o map_comments_to_cells(comments, sheets_data, key, idx + 1)

RECURSIVE Join(_, _)
Join(parts, sep) ==
  IF parts = <<>> THEN <<>>
  ELSE IF Len(parts) = 1 THEN Head(parts)
  ELSE Head(parts) \o sep \o Join(Tail(parts), sep)

\* cell_value.replace('|', '\\|')
RECURSIVE escape_pipes(_)
escape_pipes(cell_value) ==
  IF cell_value = <<>> THEN <<>>
  ELSE (IF Head(cell_value) = "|" THEN <<"\\", "|">> ELSE <<Head(cell_value)>>)
       \o escape_pipes(Tail(cell_value))

max_cols(data_rows) ==
  IF data_rows = <<>> THEN 0
  ELSE CHOOSE n \in {Len(data_rows[r]) : r \in DOMAIN data_rows} :
         \A r \in DOMAIN data_rows : Len(data_rows[r]) <= n

table_row(row) == <<"|", " ">> \o Join(row, <<" ", "|", " ">>) \o <<" ", "|">>
separator_row(header) ==
  <<"|">>
  \o Join([i \in DOMAIN header |->
             IF header[i] # <<>> THEN [k \in 1..(Len(header[i]) + 2) |-> "-"]
             ELSE <<"-", "-", "-">>], <<"|">>)
  \o <<"|">>

\* _format_markdown_table: the table as one string, its lines joined by NL
format_markdown_table(data_rows) ==
  IF data_rows = <<>> \/ max_cols(data_rows) = 0 THEN <<>>
  ELSE LET normalized_rows ==
             [r \in DOMAIN data_rows |->
                [i \in 1..max_cols(data_rows) |->
                   IF i <= Len(data_rows[r]) THEN escape_pipes(data_rows[r][i])
                   ELSE <<>>]]
           header == normalized_rows[1]
       IN  Join(<<table_row(header), separator_row(header)>>
                \o [r \in 1..(Len(normalized_rows) - 1) |-> table_row(normalized_rows[r + 1])],
                <<"NL">>)

RECURSIVE Markers(_)
Markers(comment_nums) ==
  IF comment_nums = <<>> THEN <<>>
  ELSE Marker(Head(comment_nums)) \o Markers(Tail(comment_nums))

\* the heading, comment line and replies of the listed comments of one sheet
RECURSIVE SheetCommentLines(_, _)
SheetCommentLines(comments, comment_nums) ==
  IF comment_nums = <<>> THEN <<>>
  ELSE LET idx == Head(comment_nums)
       IN  <<Line("heading", idx, ""), Blank,
             Line("comment", idx, comments[idx].content), Blank>>
           \o ReplyLines(comments[idx].replies, idx)
           \o (IF comments[idx].replies # <<>> THEN <<Blank>> ELSE <<>>)
           \o SheetCommentLines(comments, Tail(comment_nums))

RECURSIVE sorted(_)
sorted(S) ==
  IF S = {} THEN <<>>
  ELSE LET least == CHOOSE n \in S : \A m \in S : n <= m
       IN  <<least>> \o sorted(S \ {least})

\* sorted(set(sheet_comments)) of the comments filed under a cell of the sheet
sheet_comments(sheet, comments, sheets_data) ==
  LET nums == {n \in DOMAIN comments :
                 \E r \in DOMAIN sheet.data_rows, c \in 1..max_cols(sheet.data_rows) :
                    comment_key(comments[n], sheets_data) = Key(sheet.sheet_name, r, c)}
  IN  sorted(nums)

\* the section of one sheet: its heading, its table and its comments
sheet_section(sheet, comments, sheets_data) ==
  LET modified_rows ==
        [r \in DOMAIN sheet.data_rows |->
           [c \in DOMAIN sheet.data_rows[r] |->
              sheet.data_rows[r][c]
                \o Markers(map_comments_to_cells(comments, sheets_data,
                                                 Key(sheet.sheet_name, r, c), 1))]]
      listed == sheet_comments(sheet, comments, sheets_data)
  IN  [sheet_name |-> sheet.sheet_name,
       table |-> format_markdown_table(modified_rows),
       comments |-> IF listed = <<>> THEN <<>>
                    ELSE <<Line("title", 0, "## Comments"), Blank>>
                         \o SheetCommentLines(comments, listed)]

\* convert_sheets_to_markdown: the sections joined into the returned string
RECURSIVE SheetSections(_, _, _, _)
SheetSections(sheets_data, comments, all_sheets, n) ==
  IF n > Len(sheets_data) THEN <<>>
  ELSE (IF sheets_data[n].data_rows = <<>> THEN <<>>
        ELSE <<sheet_section(sheets_data[n], comments, all_sheets)>>)
       \o SheetSections(sheets_data, comments, all_sheets, n + 1)
convert_sheets_to_markdown(sheets_data, comments) ==
  SheetSections(sheets_data, comments, sheets_data, 1)

ConvertSheetsToMarkdown(sheets_data, comments) ==
  /\ conv = NoConv
  /\ conv' = [op |-> "convert_sheets_to_markdown",
              sheets_data |-> sheets_data,
              comments |-> comments,
              result |-> convert_sheets_to_markdown(sheets_data, comments)]
  /\ UNCHANGED <<cacheVars, batchVars, auth>>

NextSheets ==
  \E sheets_data \in SheetsData, comments \in SheetComments :
     ConvertSheetsToMarkdown(sheets_data, comments)

SpecSheets == Init /\ [][NextSheets]_vars

\* ------------------------------------------------ slides converters
\* an image of a slide: url "" is an image without url; response is what
\* requests.get gives for the url, "error" when it raises
Image(url, response) == [url |-> url, response |-> response]
SlideImageLists ==
  { <<>>,
    <<Image("u1", "data")>>,
    <<Image("u1", "error")>>,
    <<Image("u1", "error"), Image("u2", "data")>>,
    <<Image("", "error"), Image("u2", "data")>> }
SlideTexts == {<<>>, <<"a">>, <<"a", "b">>}
SlideNotes == {<<>>, <<"n", " ">>}
\* one slide dict of the slides api client; slide_index is its place in the list
Slide(text_content, speaker_notes, images) ==
  [text_content |-> text_content, speaker_notes |-> speaker_notes, images |-> images]
Slides == {Slide(t, n, i) : t \in SlideTexts, n \in SlideNotes, i \in SlideImageLists}
Presentations == SeqsUpTo(Slides, MaxSlides)
SlideSnippets == {<<>>, <<"a">>, <<"q">>, <<"1">>}
RECURSIVE SlideCommentListsOfLen(_)
SlideCommentListsOfLen(n) ==
  IF n = 0 THEN {<<>>}
  ELSE {Append(cs, Comment(CommentIds[n], snippet, RepliesOf(n))) :
          cs \in SlideCommentListsOfLen(n - 1), snippet \in SlideSnippets}
SlideComments == UNION {SlideCommentListsOfLen(n) : n \in 0..MaxComments}

\* an ExportedAsset: its counter stands for its name and anchor
Asset(counter, content) == [counter |-> counter, content |-> content]
\* _download_image_from_url: the downloaded asset, or the placeholder with
\* empty content when the request raises
download_image_from_url(image, counter) ==
  IF image.response = "error" THEN Asset(counter, "")
  ELSE Asset(counter, image.response)

\* f"\n![{asset.anchor}](assets/{asset.name})\n"
image_reference(asset) ==
  <<"NL", "![slide_im", "a", "ge_00", NumChars[asset.counter], "](",
    "a", "ssets/slide_im", "a", "ge_00", NumChars[asset.counter], ".png)", "NL">>

\* the loop over the images of one slide from image n on: the markdown parts
\* and assets it appends, and the image counter it leaves
RECURSIVE slide_images(_, _, _)
slide_images(images, n, image_counter) ==
  IF n > Len(images) THEN [markdown |-> <<>>, assets |-> <<>>, image_counter |-> image_counter]
  ELSE LET asset == download_image_from_url(images[n], image_counter)
           added == images[n].url # "" /\ asset.content # ""
           rest == slide_images(images, n + 1,
                                IF added THEN image_counter + 1 ELSE image_counter)
       IN  IF added
           THEN [markdown |-> image_reference(asset) \o rest.markdown,
                 assets |-> <<asset>> \o rest.assets,
                 image_counter |-> rest.image_counter]
           ELSE rest

\* _format_speaker_notes
format_speaker_notes(notes_text) ==
  IF Strip(notes_text) = <<>> THEN <<>>
  ELSE <<"NL", "NL", "### Spe", "a", "ker Notes", "NL", "NL">> \o Strip(notes_text) \o <<"NL">>

\* the loop over the slides from slide n on
RECURSIVE slide_parts(_, _, _)
slide_parts(slides, n, image_counter) ==
  IF n > Len(slides) THEN [markdown |-> <<>>, assets |-> <<>>]
  ELSE LET slide == slides[n]
           images == slide_images(slide.images, 1, image_counter)
           rest == slide_parts(slides, n + 1, images.image_counter)
       IN  [markdown |->
              <<"# --- Slide ", NumChars[n], " ---", "NL">>
              \o (IF slide.text_content # <<>> THEN slide.text_content \o <<"NL">>
                  ELSE <<"*(No text content)*", "NL">>)
              \o images.markdown
              \o (IF slide.speaker_notes # <<>>
                  THEN format_speaker_notes(slide.speaker_notes) ELSE <<>>)
              \o <<"NL">>
              \o rest.markdown,
            assets |-> images.assets \o rest.assets]

\* comment_positions[comment_idx] of _map_comments_to_slides: 0 when the
\* comment has no entry, -1 when no slide holds the snippet, else the number
\* of the first slide whose text holds it
slide_position(comment, slides) ==
  LET snippet == Strip(comment.snippet)
      holding == {n \in DOMAIN slides : IndexOf(slides[n].text_content, snippet) # 0}
  IN  IF snippet = <<>> THEN 0
      ELSE IF holding = {} THEN -1
      ELSE CHOOSE n \in holding : \A m \in holding : n <= m

\* _add_comment_markers_to_markdown, from comment idx on
RECURSIVE add_slide_markers(_, _, _, _)
add_slide_markers(markdown_content, comments, slides, idx) ==
  IF idx > Len(comments) THEN markdown_content
  ELSE add_slide_markers(
         IF slide_position(comments[idx], slides) > 0
         THEN re_sub_once(markdown_content, Strip(comments[idx].snippet), idx)
         ELSE markdown_content,
         comments, slides, idx + 1)

\* the lines _add_comment_section joins and appends to the markdown
slides_add_comment_section(comments) ==
  IF comments = <<>> THEN <<>>
  ELSE <<Blank, Line("rule", 0, "---"), Blank, Line("title", 0, "## Comments"), Blank>>
       \o CommentLines(comments, 1)

\* convert_slides_to_markdown: the returned string is markdown followed by
\* the lines of section
convert_slides_to_markdown(slides, comments) ==
  IF slides = <<>>
  THEN [markdown |-> <<"# Empty Presentation", "NL">>, section |-> <<>>, assets |-> <<>>]
  ELSE LET parts == slide_parts(slides, 1, 1)
       IN  [markdown |-> IF comments # <<>>
                         THEN add_slide_markers(parts.markdown, comments, slides, 1)
                         ELSE parts.markdown,
            section |-> slides_add_comment_section(comments),
            assets |-> parts.assets]

ConvertSlidesToMarkdown(slides, comments) ==
  /\ conv = NoConv
  /\ conv' = [op |-> "convert_slides_to_markdown",
              slides |-> slides,
              comments |-> comments,
              result |-> convert_slides_to_markdown(slides, comments)]
  /\ UNCHANGED <<cacheVars, batchVars, auth>>

NextSlides ==
  \E slides \in Presentations, comments \in SlideComments :
     ConvertSlidesToMarkdown(slides, comments)

SpecSlides == Init /\ [][NextSlides]_vars

\* the img tags of a sheets html export: src is "data:" for a base64 data
\* uri, "https://" for a remote url, "rel" for any other source; response is
\* the decoded or downloaded bytes, "error" when decoding or the request raises
Img(src, response) == [src |-> src, response |-> response]
HtmlImages ==
  { Img("data:", "data"), Img("data:", "error"),
    Img("https://", "data"), Img("https://", "error"), Img("rel", "data") }
HtmlContents == SeqsUpTo(HtmlImages, MaxImages)

\* extract_assets_from_sheets_html, from img n on: the src of every img after
\* the rewriting, and the assets
RECURSIVE extract_assets_from_sheets_html(_, _, _)
extract_assets_from_sheets_html(html_content, n, asset_counter) ==
  IF n > Len(html_content) THEN [html |-> <<>>, assets |-> <<>>]
  ELSE LET img == html_content[n]
           extracted == img.src \in {"data:", "https://"} /\ img.response # "error"
           rest == extract_assets_from_sheets_html(
                     html_content, n + 1,
                     IF extracted THEN asset_counter + 1 ELSE asset_counter)
       IN  IF extracted
           THEN [html |-> <<"assets/">> \o rest.html,
                 assets |-> <<Asset(asset_counter, img.response)>> \o rest.assets]
           ELSE [html |-> <<img.src>> \o rest.html, assets |-> rest.assets]

ExtractAssetsFromSheetsHtml(html_content) ==
  /\ conv = NoConv
  /\ conv' = [op |-> "extract_assets_from_sheets_html",
              html_content |-> html_content,
              result |-> extract_assets_from_sheets_html(html_content, 1, 1)]
  /\ UNCHANGED <<cacheVars, batchVars, auth>>

NextAssets ==
  \/ \E markdown_content \in DocContents :
        ProcessDocsMarkdownExport(markdown_content, 0, <<>>)
  \/ \E slides \in Presentations : ConvertSlidesToMarkdown(slides, <<>>)
  \/ \E html_content \in HtmlContents : ExtractAssetsFromSheetsHtml(html_content)

SpecAssets == Init /\ [][NextAssets]_vars

\* ---- export_document, steps 4 and 5: the comments and the conversion ----
\* what a call returned, or the exception it raised
Returned(value) == [raised |-> "", value |-> value]
Raises(error) == [raised |-> error, value |-> <<>>]

\* what the Drive, Slides and Sheets APIs answer for one export: status and
\* comments are the answer of comments().list(), data the exported content
\* (markdown, presentation data, sheets data), html the html export of a sheet
ExportInput(status, comments, data, html) ==
  [status |-> status, comments |-> comments, data |-> data, html |-> html]

ExportDocContents ==
  { <<"a">>,
    <<"![][image1]", "NL", "[image1]: <data:image/png;base64,A>">>,
    <<"a", "![x](data:image/png;base64,A)", "IMG">> }
ExportComments == {<<>>, <<Comment("c1", <<"a">>, <<>>)>>, <<Comment("c1", <<"q">>, <<>>)>>}
ExportPresentations ==
  { <<Slide(<<"a">>, <<>>, <<>>)>>,
    <<Slide(<<"a">>, <<>>, <<Image("u1", "error"), Image("u2", "data")>>)>> }
ExportSheetsData == {<<Sheet("0", "Sheet1", << << <<"a">> >> >>)>>}
ExportSheetComments ==
  {<<>>, <<SheetComment("c1", <<"a">>, "0", <<1, 1>>, <<>>)>>,
         <<SheetComment("c1", <<"q">>, "0", <<1, 1>>, <<>>)>>}
ExportHtmlContents == {<<>>, <<Img("https://", "error"), Img("data:", "data")>>}

ExportInputsOf(item_type) ==
  LET answers(comment_lists, contents, htmls) ==
        {ExportInput("error", <<>>, data, html) : data \in contents, html \in htmls}
        \cup {ExportInput("ok", comments, data, html) :
                comments \in comment_lists, data \in contents, html \in htmls}
  IN  CASE item_type = "DOCS_DOCUMENT" -> answers(ExportComments, ExportDocContents, {<<>>})
        [] item_type = "DOCS_SLIDES" -> answers(ExportComments, ExportPresentations, {<<>>})
        [] OTHER -> answers(ExportSheetComments, ExportSheetsData, ExportHtmlContents)

\* mutant: get_comments without its try/except
get_comments_uncaught(input) ==
  IF input.status = "error" THEN Raises(HttpError) ELSE Returned(input.comments)

\* get_comments: except Exception: return []
get_comments(input) ==
  IF input.status = "error" THEN Returned(<<>>) ELSE Returned(input.comments)

\* whether export_document calls get_comments for the item
fetches_comments(item_type, output_type) ==
  item_type \in {"DOCS_DOCUMENT", "DOCS_SLIDES"} \/ output_type = "markdown"

\* steps 4 and 5 of export_document: the comments, the content and the assets
\* of the ExportedItem, or the exception raised on the way
export_content(item_type, output_type, input) ==
  LET fetched == IF fetches_comments(item_type, output_type) THEN get_comments(input)
                 ELSE Returned(<<>>)
      comments == fetched.value
  IN  IF fetched.raised # "" THEN Raises(fetched.raised)
      ELSE IF output_type = "pdf"
      THEN Returned([comments |-> comments, content |-> <<"b1">>, assets |-> <<>>])
      ELSE CASE item_type = "DOCS_DOCUMENT" ->
                  LET r == process_docs_markdown_export(input.data, Len(comments), comments)
                  IN  Returned([comments |-> comments, content |-> r.markdown,
                                assets |-> r.assets])
             [] item_type = "DOCS_SLIDES" ->
                  LET r == convert_slides_to_markdown(input.data, comments)
                  IN  Returned([comments |-> comments, content |-> r.markdown,
                                assets |-> r.assets])
             [] OTHER ->
                  Returned([comments |-> comments,
                            content |-> convert_sheets_to_markdown(input.data, comments),
                            assets |-> extract_assets_from_sheets_html(input.html, 1, 1).assets])

\* export_document(..., save_to_disk=True) on what the APIs answered: the item
\* is saved and the unit succeeds, or the exception makes it a failure
ExportItem(i, item_type, input) ==
  /\ i \in DOMAIN tasks
  /\ tasks[i].pc = "exporting"
  /\ DriveItems[tasks[i].item_id].type = item_type
  /\ LET exported == export_content(item_type, call.output_type, input)
         export == [input |-> input, exported |-> exported]
     IN  IF exported.raised = ""
         THEN /\ Stored(i, save_to_disk(Store(i),
                                        export_document(tasks[i].item_id, call.output_type)))
              /\ tasks' = [tasks EXCEPT ![i].pc = "processed", ![i].export = export,
                             ![i].result = success_entry(tasks[i].item_id, tasks[i].item_id)]
         ELSE /\ Stored(i, IF Hierarchical(i) THEN mkdir_item_dir(children, tasks[i].item_id)
                           ELSE disk)
              /\ tasks' = [tasks EXCEPT ![i].pc = "processed", ![i].export = export,
                             ![i].raised = exported.raised, ![i].raised_in = "export",
                             ![i].result = failure_entry(tasks[i].item_id, exported.raised)]
  /\ api_calls' = api_call(api_calls, services, tasks[i].worker)
  /\ UNCHANGED <<auth, conv, ret, call, successes, failures, skipped, results_lock, services,
                 returned>>

ExportBatchInputs == {<<"g1">>, <<"s1", "g2">>, <<"g2", "g1">>}
NextExport ==
  \/ \E item_ids \in ExportBatchInputs, output_type \in OutputTypes, max_workers \in Workers :
       BatchExportByIds(item_ids, output_type, max_workers)
  \/ \E w \in Workers, i \in TaskIds : FetchItem(w, i)
  \/ \E i \in TaskIds : ProcessSingleItem(i)
  \/ \E i \in TaskIds, item_type \in ExportableTypes :
       \E input \in ExportInputsOf(item_type) : ExportItem(i, item_type, input)
  \/ \E i \in TaskIds : ExportDocumentFails(i)
  \/ \E i \in TaskIds : AcquireResultsLock(i)
  \/ \E i \in TaskIds : AppendResult(i)
  \/ ReturnBatchResult

SpecExport == Init /\ [][NextExport]_vars

\* ---- a second batch_export_by_ids in another output format ----
\* the same ids and the same output_path, output_type being the other format
BatchExportByIdsAs(output_type) ==
  /\ call.pc = "returned"
  /\ call.entry = "batch_export_by_ids"
  /\ call.run = 1
  /\ output_type # call.output_type
  /\ call' = [call EXCEPT !.pc = "waiting", !.run = 2, !.output_type = output_type]
  /\ tasks' = [i \in DOMAIN call.item_ids |-> Task(call.item_ids[i], "")]
  /\ successes' = <<>>
  /\ failures' = <<>>
  /\ skipped' = <<>>
  /\ services' = new_pool(services)
  /\ api_calls' = {}
  /\ UNCHANGED <<auth, conv, disk, ret, results_lock, returned>>
  /\ UNCHANGED folderVars

FormatInputs == { <<"g1", "r1">>, <<"s1", "g2">> }

NextFormat ==
  \/ \E item_ids \in FormatInputs, output_type \in OutputTypes :
       BatchExportByIds(item_ids, output_type, MaxWorkers)
  \/ \E output_type \in OutputTypes : BatchExportByIdsAs(output_type)
  \/ \E w \in Workers, i \in TaskIds : FetchItem(w, i)
  \/ \E w \in Workers, i \in TaskIds : FetchItemFails(w, i)
  \/ \E i \in TaskIds : ProcessSingleItem(i)
  \/ \E i \in TaskIds : ExportDocument(i)
  \/ \E i \in TaskIds : ExportDocumentFails(i)
  \/ \E i \in TaskIds : CacheWriteFails(i, 3, TRUE)
  \/ \E i \in TaskIds : DownloadFile(i)
  \/ \E i \in TaskIds : DownloadFileFails(i)
  \/ \E i \in TaskIds : AcquireResultsLock(i)
  \/ \E i \in TaskIds : AppendResult(i)
  \/ ReturnBatchResult

SpecFormat == Init /\ [][NextFormat]_vars

\* ---- OAuth2Client.get_credentials: threads sharing one client and its refresh lock ----

\* creds.expired of a Credentials object holding the given access token
expired(a, token) == token \in a.expired

\* creds.refresh(Request()): the token endpoint issues the next access token
refresh(a) == Len(a.refreshes) + 1

\* the lifetime of the stored access token runs out
TokenExpires ==
  /\ auth.storage = 0
  /\ ~expired(auth, 0)
  /\ auth' = [auth EXCEPT !.expired = @ \cup {0}]
  /\ UNCHANGED <<cacheVars, batchVars, conv>>

\* token_data = self.storage.get(); creds = Credentials(token=..., refresh_token=...);
\* an expired creds goes on to the refresh lock, a valid one is returned
GetCredentials(t) ==
  /\ auth.pc[t] = "idle"
  /\ auth' = [auth EXCEPT !.creds[t] = auth.storage,
                          !.pc[t] = IF expired(auth, auth.storage) THEN "acquire"
                                                                   ELSE "returned"]
  /\ UNCHANGED <<cacheVars, batchVars, conv>>

\* with self._refresh_lock:
AcquireRefreshLock(t) ==
  /\ auth.pc[t] = "acquire"
  /\ auth.refresh_lock = -1
  /\ auth' = [auth EXCEPT !.refresh_lock = t, !.pc[t] = "locked"]
  /\ UNCHANGED <<cacheVars, batchVars, conv>>

\* if creds.expired: creds.refresh(Request()); otherwise the lock is released
\* and creds returned
RefreshCredentials(t) ==
  /\ auth.pc[t] = "locked"
  /\ IF expired(auth, auth.creds[t])
       THEN auth' = [auth EXCEPT !.creds[t] = refresh(auth),
                                 !.refreshes = Append(@, [thread |-> t, token |-> auth.creds[t]]),
                                 !.pc[t] = "refreshed"]
       ELSE auth' = [auth EXCEPT !.refresh_lock = -1, !.pc[t] = "returned"]
  /\ UNCHANGED <<cacheVars, batchVars, conv>>

\* creds.refresh raises: the with statement releases the lock, the exception propagates
RefreshFails(t) ==
  /\ auth.pc[t] = "locked"
  /\ expired(auth, auth.creds[t])
  /\ auth' = [auth EXCEPT !.refresh_lock = -1, !.pc[t] = "raised"]
  /\ UNCHANGED <<cacheVars, batchVars, conv>>

\* self._save_credentials(creds); the lock is released and creds returned
SaveCredentials(t) ==
  /\ auth.pc[t] = "refreshed"
  /\ auth' = [auth EXCEPT !.storage = auth.creds[t],
                          !.saves = Append(@, [thread |-> t, token |-> auth.creds[t]]),
                          !.refresh_lock = -1,
                          !.pc[t] = "returned"]
  /\ UNCHANGED <<cacheVars, batchVars, conv>>

NextAuth ==
  \/ TokenExpires
  \/ \E t \in Threads : GetCredentials(t)
  \/ \E t \in Threads : AcquireRefreshLock(t)
  \/ \E t \in Threads : RefreshCredentials(t)
  \/ \E t \in Threads : RefreshFails(t)
  \/ \E t \in Threads : SaveCredentials(t)

SpecAuth == Init /\ [][NextAuth]_vars

\* ======================================================== the cache claims
ContentFile(dir) == IF dir.metadata.data.content_format = "pdf" THEN dir.pdf ELSE dir.md

\* metadata, comment list, content and as many assets as the metadata counts
\* are completely on disk
UnitComplete(dir) ==
  /\ Readable(dir.metadata)
  /\ Readable(dir.comments)
  /\ Readable(ContentFile(dir))
  /\ Cardinality({n \in AssetNames : Readable(dir.assets[n])}) >= dir.metadata.data.asset_count

\* C1: when save_to_disk is killed between two of its file writes,
\* should_skip_export for that item id is true only if the whole unit
\* (metadata, comments, content, every asset) is completely on disk.
C1_KilledWriteNeverFresh ==
  (ret.op = "save_to_disk" /\ ret.status = "killed" /\ ~ret.truncated) =>
     \A t \in Times :
        should_skip_export(disk, ret.item_id, t) => UnitComplete(disk[ret.item_id])

FreshDir(item) == SaveProgress(EmptyDir, item, NSteps(item))

\* C2: after write(item1) followed by write(item2) for the same id the
\* directory holds item2's unit and nothing else (no asset or content file of
\* item1 survives), so read(id) returns what reading item2's unit returns.
C2_SecondWriteReplacesFirst ==
  [][ ( /\ ret.op = "save_to_disk" /\ ret.status = "ok"
        /\ ret'.op = "save_to_disk" /\ ret'.status = "ok"
        /\ ret'.item_id = ret.item_id )
      => /\ disk'[ret'.item_id] = FreshDir(ret'.item)
         /\ load_from_disk(disk', ret'.item_id)
              = load_from_disk([disk EXCEPT ![ret'.item_id] = FreshDir(ret'.item)],
                               ret'.item_id) ]_vars

\* C3: a save_to_disk that raises leaves the stored unit of that id as it was
\* before the call: should_skip and read give the same results as before.
C3_FailedWriteChangesNothing ==
  [][ (ret'.op = "save_to_disk" /\ ret'.status = "IOError")
      => /\ disk'[ret'.item_id] = disk[ret'.item_id]
         /\ load_from_disk(disk', ret'.item_id) = load_from_disk(disk, ret'.item_id)
         /\ \A t \in Times : should_skip_export(disk', ret'.item_id, t)
                               = should_skip_export(disk, ret'.item_id, t) ]_vars

HasRecord(dir) == Readable(dir.metadata)
RecordedTime(dir) == dir.metadata.data.modified_time
JustWrote(item_id) ==
  ret.op = "save_to_disk" /\ ret.status = "ok" /\ ret.item_id = item_id

\* C4 as claimed: should_skip(id, t) is true iff a record for id exists whose
\* recorded modified_time is >= t; false for an id never written, true right
\* after write(item with modifiedTime = t), false for every t' > t.
C4_SkipIffRecordedTimeGeq ==
  \A id \in Ids, t \in Times :
     /\ should_skip_export(disk, id, t)
          <=> (HasRecord(disk[id]) /\ StrGeq(RecordedTime(disk[id]), t))
     /\ ~disk[id].exists => ~should_skip_export(disk, id, t)
     /\ JustWrote(id) =>
          (should_skip_export(disk, id, t) <=> StrGeq(ret.item.modified_time, t))

\* C4 amended: should_skip(id, t) is true iff a record for id exists whose
\* recorded modified_time is not empty and is >= t; false for an id never
\* written, and right after write(item with a non-empty modifiedTime = t) true
\* for t and false for every t' > t.
C4_SkipIffNonEmptyRecordedTimeGeq ==
  \A id \in Ids, t \in Times :
     /\ should_skip_export(disk, id, t)
          <=> ( /\ HasRecord(disk[id])
                /\ RecordedTime(disk[id]) # <<>>
                /\ StrGeq(RecordedTime(disk[id]), t) )
     /\ ~disk[id].exists => ~should_skip_export(disk, id, t)
     /\ JustWrote(id) =>
          (should_skip_export(disk, id, t)
             <=> (ret.item.modified_time # <<>> /\ StrGeq(ret.item.modified_time, t)))

\* should_skip_export has answered true for an id written with a later-or-equal time
C4_Witness ==
  /\ ret.op = "should_skip_export" /\ ret.value
  /\ HasRecord(disk[ret.item_id])

SeqToSet(s) == {s[i] : i \in 1..Len(s)}

\* C5: write(item) then read(item.id) returns the same content, the same
\* comment list in the same order, and every (name, content, mime type) of
\* the written assets.
C5_RoundTrip ==
  (ret.op = "save_to_disk" /\ ret.status = "ok") =>
     LET r == load_from_disk(disk, ret.item_id)
     IN  /\ r.status = "ok"
         /\ r.item.content = ret.item.content
         /\ r.item.comments = ret.item.comments
         /\ \A a \in SeqToSet(ret.item.assets) :
               \E b \in SeqToSet(r.item.assets) :
                  /\ b.name = a.name
                  /\ b.content = a.content
                  /\ b.mime_type = a.mime_type

\* C6: after delete(id), should_skip(id, t) is false for every t and read(id)
\* raises FileNotFoundError, whatever writes preceded the delete.
C6_DeletedIsGone ==
  (ret.op = "delete_from_disk") =>
     /\ \A t \in Times : ~should_skip_export(disk, ret.item_id, t)
     /\ load_from_disk(disk, ret.item_id).status = "FileNotFoundError"

\* a delete has removed a directory that existed
C6_Witness == ret.op = "delete_from_disk" /\ ret.value

\* C7: deleting an id that has no record returns False and changes nothing, so
\* a second delete(id) right after a delete(id) reports not found and leaves
\* the state of the single delete.
C7_DeleteIdempotent ==
  [][ /\ (ret'.op = "delete_from_disk" /\ ~disk[ret'.item_id].exists)
         => (~ret'.value /\ disk' = disk)
      /\ (ret.op = "delete_from_disk" /\ ret'.op = "delete_from_disk"
            /\ ret'.item_id = ret.item_id)
         => (~ret'.value /\ disk' = disk) ]_vars

\* a delete has reported not found
C7_Witness ==
  /\ ret.op = "delete_from_disk" /\ ~ret.value
  /\ ~disk[ret.item_id].exists

\* ======================================================== the batch claims
Count(entries, id) == Cardinality({k \in DOMAIN entries : entries[k].item_id = id})
Occurrences(ids, id) == Cardinality({k \in DOMAIN ids : ids[k] = id})
Entries(entries) == {entries[k] : k \in DOMAIN entries}
TasksWhere(P(_)) == Cardinality({i \in DOMAIN tasks : P(i)})
ReturnedFrom(entry) == call.pc = "returned" /\ call.entry = entry

IsFetchFailure(i) == tasks[i].raised_in = "fetch"
IsDirectory(i) == tasks[i].raised = "" /\ DriveItems[tasks[i].item_id].type = "DIRECTORY"
IsExported(i) ==
  /\ tasks[i].raised = ""
  /\ DriveItems[tasks[i].item_id].type \in ExportableTypes \cup {"RAW_FILE"}
  /\ ~(\E j \in DOMAIN tasks : j # i /\ tasks[j].item_id = tasks[i].item_id)

IsFolder(id) == DriveItems[id].type = "DIRECTORY"
SubfoldersOf(S) ==
  UNION {{DriveChildren[f][k] : k \in DOMAIN DriveChildren[f]} : f \in S}
    \cap {id \in DriveIds : IsFolder(id)}
RECURSIVE Reachable(_)
Reachable(S) ==
  LET N == S \cup SubfoldersOf(S) IN IF N = S THEN S ELSE Reachable(N)
\* the folders at most n levels below the folders of S
RECURSIVE FoldersWithin(_, _)
FoldersWithin(S, n) == IF n = 0 THEN S ELSE FoldersWithin(S \cup SubfoldersOf(S), n - 1)
FilesOf(S) ==
  UNION {{DriveChildren[f][k] : k \in DOMAIN DriveChildren[f]} : f \in S}
    \ {id \in DriveIds : IsFolder(id)}
NoDuplicates(seq) == \A i, j \in DOMAIN seq : seq[i] = seq[j] => i = j

C12_DepthLimit ==
  (ReturnedFrom("batch_export") /\ raised_folders = {}) =>
    LET within == IF call.depth = <<>> THEN Reachable({call.folder_id})
                  ELSE FoldersWithin({call.folder_id}, call.depth[1])
    IN  /\ {tasks[i].item_id : i \in DOMAIN tasks} = FilesOf(within)
        /\ call.depth = <<0>> => entered = <<call.folder_id>>

\* ==================================================== the second-run claims
\* the ids of the given types that r lists as successes and not as failures
Succeeded(r, types) ==
  {id \in DriveIds :
     /\ DriveItems[id].type \in types
     /\ Count(r.successes, id) > 0
     /\ Count(r.failures, id) = 0}
\* the second call is running: returned still holds the first call's result
SecondRun == call.run = 2 /\ call.pc # "returned"
\* in this step the second call leaves id alone and, when it returns, has
\* classified every unit of id it fetched as skipped for the given reason
SkippedAgain(id, reason) ==
  /\ disk'[id] = disk[id]
  /\ children'[id] = children[id]
  /\ call'.pc = "returned" =>
       \A i \in DOMAIN tasks :
         (tasks[i].item_id = id /\ tasks[i].raised_in # "fetch") =>
           /\ tasks[i].result = skipped_entry(id, reason)
           /\ tasks[i].result \in Entries(returned'.skipped)

C14_SecondRunSkipsRawFiles ==
  [][SecondRun =>
       \A id \in Succeeded(returned, {"RAW_FILE"}) :
         SkippedAgain(id, "Already downloaded")]_vars

\* ===================================================== the docs claims
Occurs(s, sub) ==
  Cardinality({i \in 1..(Len(s) - Len(sub) + 1) : SubSeq(s, i, i + Len(sub) - 1) = sub})
Docs == conv.op = "process_docs_markdown_export"
\* the numbers of the headings of the section, in order
RECURSIVE Headings(_)
Headings(lines) ==
  IF lines = <<>> THEN <<>>
  ELSE (IF Head(lines).kind = "heading" THEN <<Head(lines).num>> ELSE <<>>)
       \o Headings(Tail(lines))
\* the lines that follow the heading of entry num, up to the next heading
RECURSIVE EntryLines(_, _, _)
EntryLines(lines, num, inside) ==
  IF lines = <<>> THEN <<>>
  ELSE IF Head(lines).kind = "heading"
       THEN EntryLines(Tail(lines), num, Head(lines).num = num)
       ELSE (IF inside /\ Head(lines).kind # "blank" THEN <<Head(lines)>> ELSE <<>>)
            \o EntryLines(Tail(lines), num, inside)
Content == extract_assets_from_markdown(conv.markdown_content).markdown

\* C15: when each of the N comments has a snippet that occurs exactly once in
\* the content, the markers [1]..[N] are each inserted once, nothing else is
\* changed, and the section has the N entries 1..N in order
C15_EverySnippetMarked ==
  (/\ Docs
   /\ conv.comments # <<>>
   /\ \A n \in DOMAIN conv.comments :
        conv.comments[n].snippet # <<>> /\ Occurs(Content, conv.comments[n].snippet) = 1)
  => /\ \A n \in DOMAIN conv.comments : Occurs(conv.result.markdown, Marker(n)) = 1
     /\ Len(conv.result.markdown) = Len(Content) + 3 * Len(conv.comments)
     /\ Headings(conv.result.section) = [n \in DOMAIN conv.comments |-> n]

\* C18: every input comment has exactly one numbered entry in the section, in
\* input order, followed by its replies in order; a comment whose snippet is
\* empty or occurs nowhere in the content adds no inline marker
C18_NoCommentDropped ==
  Docs =>
    /\ Headings(conv.result.section) = [n \in DOMAIN conv.comments |-> n]
    /\ \A n \in DOMAIN conv.comments :
         /\ EntryLines(conv.result.section, n, FALSE) =
              <<Line("comment", n, conv.comments[n].content)>>
                \o [k \in DOMAIN conv.comments[n].replies |->
                      Line("reply", n, conv.comments[n].replies[k])]
         /\ (conv.comments[n].snippet = <<>> \/ Occurs(Content, conv.comments[n].snippet) = 0)
              => Occurs(conv.result.markdown, <<NumChars[n], "]">>) = 0

\* s without the markers [1]..[9] it holds
RECURSIVE WithoutMarkers(_)
WithoutMarkers(s) ==
  IF s = <<>> THEN <<>>
  ELSE IF Len(s) >= 3 /\ \E n \in DOMAIN NumChars : SubSeq(s, 1, 3) = Marker(n)
       THEN WithoutMarkers(SubSeq(s, 4, Len(s)))
       ELSE <<Head(s)>> \o WithoutMarkers(Tail(s))
\* the marker of comment n stands in s right after the first k tokens of Content
MarkedAfter(s, n, k) ==
  \E j \in 1..(Len(s) - 2) :
    /\ SubSeq(s, j, j + 2) = Marker(n)
    /\ WithoutMarkers(SubSeq(s, 1, j - 1)) = SubSeq(Content, 1, k)

\* C25: when the html export has an anchor for every comment, the marker of the
\* n-th comment is [n], inserted immediately after the first occurrence of its
\* snippet in the content, whatever the other comments are: a marker inserted
\* earlier neither hides a later match nor offers a match inside itself
C25_MarkerAfterFirstOccurrence ==
  (Docs /\ conv.html_anchors >= Len(conv.comments)) =>
    \A n \in DOMAIN conv.comments :
      LET snippet == conv.comments[n].snippet
      IN  (snippet # <<>> /\ IndexOf(Content, snippet) # 0)
            => /\ MarkedAfter(conv.result.markdown, n,
                              IndexOf(Content, snippet) + Len(snippet) - 1)
               /\ WithoutMarkers(conv.result.markdown) = Content

\* =================================================== the sheets claims
Sheets == conv.op = "convert_sheets_to_markdown"
\* the lines a string is displayed as
RECURSIVE SplitLines(_)
SplitLines(s) ==
  LET i == IndexOf(s, <<"NL">>)
  IN  IF i = 0 THEN <<s>>
      ELSE <<SubSeq(s, 1, i - 1)>> \o SplitLines(SubSeq(s, i + 1, Len(s)))
\* the number of columns the delimiters of a grid line make; a pipe after a
\* backslash is cell text
Columns(line) ==
  Cardinality({i \in DOMAIN line :
                 line[i] = "|" /\ (i = 1 \/ line[i - 1] # "\\")}) - 1
\* the sheets that get a section, in order
RECURSIVE Rendered(_)
Rendered(sheets_data) ==
  IF sheets_data = <<>> THEN <<>>
  ELSE (IF Head(sheets_data).data_rows = <<>> THEN <<>> ELSE <<Head(sheets_data)>>)
       \o Rendered(Tail(sheets_data))

\* C16: every input comment, also one with no anchor, no snippet, or a snippet
\* that matches no cell of its sheet, has an entry in the comments of a
\* rendered sheet
C16_NoSheetCommentDropped ==
  (Sheets /\ conv.result # <<>>) =>
    \A n \in DOMAIN conv.comments :
      \E s \in DOMAIN conv.result : n \in SeqToSet(Headings(conv.result[s].comments))

\* C19: the grid of a sheet with at least one data row has one line per row
\* and a separator, and every line has as many columns as the widest row; the
\* rows [[a,b,c],[x]] give three columns with two empty cells after x
C19_GridColumns ==
  Sheets =>
    \A s \in DOMAIN conv.result :
      LET data_rows == Rendered(conv.sheets_data)[s].data_rows
          lines == SplitLines(conv.result[s].table)
      IN  max_cols(data_rows) > 0 =>
            /\ Len(lines) = Len(data_rows) + 1
            /\ \A k \in DOMAIN lines : Columns(lines[k]) = max_cols(data_rows)
            /\ (data_rows = << << <<"a">>, <<"b">>, <<"c">> >>, << <<"x">> >> >>
                /\ conv.comments = <<>>)
                 => lines[3] = <<"|", " ", "x", " ", "|", " ", " ", "|", " ", " ", "|">>

\* the comments whose anchor names cell (r, c) of the sheet and whose snippet
\* is the stripped text of that cell
AnchoredAt(sheet, r, c) ==
  {n \in DOMAIN conv.comments :
     /\ conv.comments[n].anchor = sheet.sheet_id
     /\ conv.comments[n].range = <<r, c>>
     /\ Strip(conv.comments[n].snippet) # <<>>
     /\ Strip(sheet.data_rows[r][c]) = Strip(conv.comments[n].snippet)}
\* the rows of the sheet with each marker in the cell its comment is anchored at
AnchoredRows(sheet) ==
  [r \in DOMAIN sheet.data_rows |->
     [c \in DOMAIN sheet.data_rows[r] |->
        sheet.data_rows[r][c] \o Markers(sorted(AnchoredAt(sheet, r, c)))]]

\* C26: a comment is anchored only to the cell its anchor names: its marker is
\* in that cell when the text of the cell equals the snippet, and in no other
\* cell, whatever text the other cells hold
C26_MarkerInAnchoredCell ==
  (Sheets /\ conv.result # <<>>) =>
    conv.result[1].table = format_markdown_table(AnchoredRows(conv.sheets_data[1]))

\* =================================================== the slides claims
SlidesOp == conv.op = "convert_slides_to_markdown"

\* C17: for any presentation and any comment list, every input comment, with
\* an empty or unmatched snippet too, has exactly one numbered entry in the
\* trailing comments section, in input order
C17_EverySlideCommentListed ==
  SlidesOp =>
    /\ Headings(conv.result.section) = [n \in DOMAIN conv.comments |-> n]
    /\ \A n \in DOMAIN conv.comments :
         EntryLines(conv.result.section, n, FALSE) =
           <<Line("comment", n, conv.comments[n].content)>>
             \o [k \in DOMAIN conv.comments[n].replies |->
                   Line("reply", n, conv.comments[n].replies[k])]

\* where the body text of slide p starts in the markdown of the slides: after
\* the sections of the slides before it and after its own header line
BodyStart(slides, p) == Len(slide_parts(SubSeq(slides, 1, p - 1), 1, 1).markdown) + 4
\* the marker of comment n stands in s right after the first k tokens of the
\* markdown of the slides
SlideMarkedAfter(s, n, k) ==
  \E j \in 1..(Len(s) - 2) :
    /\ SubSeq(s, j, j + 2) = Marker(n)
    /\ Len(WithoutMarkers(SubSeq(s, 1, j - 1))) = k

\* C27: the marker of a comment whose snippet is found is inserted inside the
\* section of the first slide whose text contains the snippet, immediately
\* after the snippet in the body text of that slide
C27_MarkerInSlideBody ==
  (SlidesOp /\ conv.slides # <<>>) =>
    \A n \in DOMAIN conv.comments :
      LET p == slide_position(conv.comments[n], conv.slides)
          snippet == Strip(conv.comments[n].snippet)
      IN  p > 0 =>
            SlideMarkedAfter(conv.result.markdown, n,
                             BodyStart(conv.slides, p)
                               + IndexOf(conv.slides[p].text_content, snippet)
                               + Len(snippet) - 1)

\* the images of all slides that have a url, in order
RECURSIVE FetchedImages(_)
FetchedImages(slides) ==
  IF slides = <<>> THEN <<>>
  ELSE SelectSeq(Head(slides).images, LAMBDA image : image.url # "")
       \o FetchedImages(Tail(slides))
\* the contents of the assets, in order
Contents(assets) == [k \in DOMAIN assets |-> assets[k].content]
\* what the asset list holds when every fetched entry has its asset and a
\* failed one has the placeholder with empty content
WithPlaceholders(images) ==
  [k \in DOMAIN images |-> IF images[k].response = "error" THEN "" ELSE images[k].response]

\* C20: when a remote fetch fails, extraction returns, the other assets are
\* extracted, and the asset list holds an empty-content placeholder for the
\* failed entry
C20_FailedFetchLeavesPlaceholder ==
  /\ SlidesOp =>
       Contents(conv.result.assets) = WithPlaceholders(FetchedImages(conv.slides))
  /\ conv.op = "extract_assets_from_sheets_html" =>
       Contents(conv.result.assets) =
         WithPlaceholders(SelectSeq(conv.html_content,
                                    LAMBDA img : img.src = "https://"
                                                 \/ (img.src = "data:" /\ img.response # "error")))

\* =================================================== the asset claims
\* the name an asset is saved under
AssetNameOf(asset) ==
  IF Docs THEN asset.name ELSE asset.counter
ExtractionDone ==
  conv.op \in {"process_docs_markdown_export", "convert_slides_to_markdown",
               "extract_assets_from_sheets_html"}

\* C21: the assets one export returns have pairwise distinct names
C21_AssetNamesDistinct ==
  ExtractionDone =>
    \A i, j \in DOMAIN conv.result.assets :
       i # j => AssetNameOf(conv.result.assets[i]) # AssetNameOf(conv.result.assets[j])

\* the reference uses of ref, with an empty and with a non-empty alt text
UsesOf(ref) ==
  IF ref = "asset_002" THEN {"![][asset_002]", "![logo][asset_002]"}
  ELSE {"![][image1]", "![logo][image1]"}

\* C28: for every reference definition extracted as an asset, every use of
\* the reference has become the inline reference to assets/<asset name>, and
\* no reference-style use of it is left in the content
C28_ReferenceUsesInlined ==
  (Docs /\ conv.comments = <<>>) =>
    \A k \in DOMAIN conv.result.assets :
      LET ref == conv.result.assets[k].anchor
      IN  conv.result.assets[k].name = ref_asset_name(ref) =>
            /\ \A i \in DOMAIN conv.result.markdown : conv.result.markdown[i] \notin UsesOf(ref)
            /\ Cardinality({i \in DOMAIN conv.result.markdown :
                               conv.result.markdown[i] = inline_use(ref)})
                 = Cardinality({i \in DOMAIN conv.markdown_content :
                                  conv.markdown_content[i] \in UsesOf(ref)})

\* =================================================== the worker claims
InProgress == {i \in DOMAIN tasks : tasks[i].pc \notin {"queued", "done"}}

\* C22: in batch_export the units of the files found run on the workers of a
\* pool of max_workers: a unit in progress is on one of the workers 1 to
\* max_workers, never on the caller's thread, which does the folder
\* bookkeeping, and no more than max_workers units are in progress
C22_FolderUnitsRunOnPool ==
  call.entry = "batch_export" =>
    /\ Cardinality(InProgress) <= call.max_workers
    /\ \A i \in InProgress : tasks[i].worker \in 1..call.max_workers

C24_AtMostOneRefresh ==
  /\ Cardinality({k \in DOMAIN auth.refreshes : auth.refreshes[k].token = 0}) <= 1
  /\ Cardinality({k \in DOMAIN auth.saves : auth.saves[k].token \in 1..Len(auth.refreshes)}) <= 1

\* ---- claims about the items of a batch whose export met a soft failure ----
Exported(i) == tasks[i].export # NoExport
ItemType(i) == DriveItems[tasks[i].item_id].type
\* comments().list() raised for the item
CommentFetchFailed(i) ==
  /\ Exported(i)
  /\ fetches_comments(ItemType(i), call.output_type)
  /\ tasks[i].export.input.status = "error"
\* a comment of the item is mapped to no place of the content
MappingUnmatched(i) ==
  /\ Exported(i)
  /\ call.output_type = "markdown"
  /\ LET input == tasks[i].export.input
     IN  \E n \in DOMAIN input.comments :
           CASE ItemType(i) = "DOCS_DOCUMENT" ->
                  IndexOf(extract_assets_from_markdown(input.data).markdown,
                          input.comments[n].snippet) = 0
             [] ItemType(i) = "DOCS_SLIDES" ->
                  slide_position(input.comments[n], input.data) = -1
             [] OTHER -> comment_key(input.comments[n], input.data) = NoKey
\* an image of the item does not decode or does not download
AssetFailed(i) ==
  /\ Exported(i)
  /\ call.output_type = "markdown"
  /\ LET input == tasks[i].export.input
     IN  CASE ItemType(i) = "DOCS_DOCUMENT" ->
                \E k \in DOMAIN input.data :
                  input.data[k] \in DefTokens \cup InlineTokens /\ ~decodes(input.data[k])
           [] ItemType(i) = "DOCS_SLIDES" ->
                \E p \in DOMAIN input.data : \E k \in DOMAIN input.data[p].images :
                  input.data[p].images[k].url # ""
                    /\ input.data[p].images[k].response = "error"
           [] OTHER ->
                \E k \in DOMAIN input.html :
                  input.html[k].src \in {"data:", "https://"}
                    /\ input.html[k].response = "error"

CachedInOtherFormat(id) ==
  /\ Readable(disk[id].metadata)
  /\ disk[id].metadata.data.content_format # call.output_type

====
